---------------------------- MODULE Spec2Model ----------------------------
(***************************************************************************)
(* SecGram scrapper service: the SQLite state store of dbstate.py          *)
(* (accounts, account_channels, crawl_locks), the account pool of          *)
(* account_manager.py (telegram.db, the account queue, process_channels)   *)
(* and the crawl loop of telegram_scraper.py (main, scrape_channel), with   *)
(* the channel functions of utils/db_utils.py and Account.connect.         *)
(* Tables are sets of rows; a PRIMARY KEY is kept by INSERT OR REPLACE     *)
(* removing the rows that share the new row's key.                         *)
(***************************************************************************)
EXTENDS Integers, Sequences, FiniteSets, TLC

\* ------------------------------------------------------------ bounds
MaxTime == 1
MaxTimeout == 1
MaxSent == 2

Accounts == {"idA", "idB"}
Channels == {"chan1", "chan2"}
Timeouts == 0..MaxTimeout
RaceTasks == {"t1", "t2"}
CrawlTasks == {"main", "watcher"}
\* the session files of /app/resources/sessions/ the scheduler's pool is made of
Identities == {"idA", "idB", "idC"}
\* resources/accounts.json, in file order, and the contents channels.json may have
AccountsFile == <<"idA", "idB">>
ChannelLists == {<<>>, <<"chan1">>, <<"chan1", "chan2">>}
None == "None"
\* the account_name get_active_account passes when the queue has run out
AllAccounts == "All accounts"

VARIABLES
    now,              \* int(time.time())
    accounts,         \* dbstate.py table accounts: rows [account_name, status]
    account_channels, \* dbstate.py table account_channels
    crawl_locks,      \* dbstate.py table crawl_locks
    last,             \* the last call made: its name, arguments and return value
    rpc,              \* lock tasks: where each task is in "check, then lock, then unlock"
    racct,            \* lock tasks: the account each task locks for
    rch,              \* lock tasks: the channel each task wants
    tg_accounts,      \* telegram.db table accounts: rows [phone, status]
    tg_channels,      \* telegram.db table channels: rows [phone, channel, date_joined]
    account_queue,    \* AccountManager.account_queue
    required_channels,\* AccountManager.required_channels
    is_banned,        \* Account.is_banned, per account
    client,           \* Account.client, per account: None or a connected client
    cpc,              \* crawl tasks: where each _test_channels run is
    cacct,            \* crawl tasks: the account get_active_account returned
    creq,             \* crawl tasks: the list passed to process_channels
    cjoined,          \* crawl tasks: process_channels' joined_channels_db
    cmissing,         \* crawl tasks: process_channels' missing_channels
    cidx,             \* crawl tasks: position in the join or the scrape loop
    mgr_accounts,     \* AccountManager.accounts: the loaded accounts' names, in file order
    email_config,     \* AccountManager.email_config is set
    sent,             \* send_ban_notification calls made so far, per account_name
    pool,             \* scheduler: the status of each identity of mgr
    conn,             \* scheduler: the identity's client is connected
    spc,              \* scheduler: where telegram_scraper.main is
    tier,             \* scheduler: the mode the cycle runs in
    all_channels,     \* scheduler: all_channels_loader.channels
    priority_channels,\* scheduler: priority_channels_loader.channels
    scrape_channels,  \* scheduler: the cycle's scrape_channels
    sidx,             \* scheduler: position of the for loop in scrape_channels
    sheld,            \* scheduler: the accounts taken for the channel at hand, oldest first
    exhausted,        \* scheduler: "Critical: ..." e-mails sent
    session_file,     \* connect: the state of Account.session_file on disk
    conn_pc,          \* connect: where a call of Account.connect is
    retry_count,      \* connect: its local retry_count
    rounds,           \* connect: rounds of the while loop begun in this call
    attempts,         \* connect: client.start() calls made in this call
    sleeps,           \* connect: asyncio.sleep(5) calls made in this call
    jpc,              \* join loop: where the loop of process_channels is
    jmissing,         \* join loop: missing_channels
    jidx,             \* join loop: position of the loop in missing_channels
    since_join,       \* join loop: seconds since the account's last join call, 3 at most
    file_state,       \* channel file: missing, present or unreadable
    file_lines,       \* channel file: its lines, stripped, blank lines left out
    channels,         \* ChannelLoader.channels
    is_priority       \* ChannelLoader.is_priority

storeVars == <<now, accounts, account_channels, crawl_locks, last>>
raceVars == <<rpc, racct, rch>>
crawlVars == <<tg_accounts, tg_channels, account_queue, required_channels, is_banned,
               client, cpc, cacct, creq, cjoined, cmissing, cidx>>
poolVars == <<mgr_accounts, email_config, sent>>
vars == <<now, accounts, account_channels, crawl_locks, last, rpc, racct, rch,
          tg_accounts, tg_channels, account_queue, required_channels, is_banned,
          client, cpc, cacct, creq, cjoined, cmissing, cidx,
          mgr_accounts, email_config, sent,
          pool, conn, spc, tier, all_channels, priority_channels, scrape_channels,
          sidx, sheld, exhausted,
          session_file, conn_pc, retry_count, rounds, attempts, sleeps,
          jpc, jmissing, jidx, since_join,
          file_state, file_lines, channels, is_priority>>
schedVars == <<pool, conn, spc, tier, all_channels, priority_channels, scrape_channels,
               sidx, sheld, exhausted>>
connVars == <<session_file, conn_pc, retry_count, rounds, attempts, sleeps>>
joinVars == <<jpc, jmissing, jidx, since_join>>
loaderVars == <<file_state, file_lines, channels, is_priority>>

\* prev: the lock rows of the call's channel as the call found them.
Call(op, acct, ch, timeout, ret, prev) ==
    [op |-> op, acct |-> acct, ch |-> ch, timeout |-> timeout, ret |-> ret, prev |-> prev]

\* ------------------------------------------------------------ dbstate.py
\* INSERT OR REPLACE INTO accounts: account_name is the primary key.
UpsertAccount(table, row) ==
    {r \in table : r.account_name # row.account_name} \cup {row}

\* INSERT OR REPLACE INTO account_channels: (account_name, channel_id) is the key.
UpsertMembership(table, row) ==
    {r \in table : ~(r.account_name = row.account_name /\ r.channel_id = row.channel_id)}
        \cup {row}

\* A plain INSERT with no key: the row is added beside the old one.
UpsertLock_NoKey(table, row) == table \cup {row}

\* INSERT OR IGNORE: an existing row of the channel is kept.
UpsertLock_Ignore(table, row) ==
    IF \E r \in table : r.channel_id = row.channel_id THEN table ELSE table \cup {row}

\* INSERT OR REPLACE INTO crawl_locks: channel_id is the primary key.
UpsertLock(table, row) ==
    {r \in table : r.channel_id # row.channel_id} \cup {row}

\* DELETE FROM crawl_locks, the WHERE clause lost.
DeleteLock_All(table, ch) == {}

\* DELETE FROM crawl_locks WHERE channel_id = ?
DeleteLock(table, ch) == {r \in table : r.channel_id # ch}

\* SELECT locked_at FROM crawl_locks WHERE channel_id = ? ; fetchone()
LockRows(ch) == {r \in crawl_locks : r.channel_id = ch}
FetchLock(ch) == CHOOSE r \in LockRows(ch) : TRUE

Expired_Ge(row, timeout) == (now - row.locked_at) >= timeout

\* (int(time.time()) - result[0]) > timeout
Expired(row, timeout) == (now - row.locked_at) > timeout

HasJoined_Always(acct, ch) == TRUE

\* SELECT channel_id FROM account_channels WHERE account_name = ? AND channel_id = ?
HasJoined(acct, ch) ==
    \E r \in account_channels : r.account_name = acct /\ r.channel_id = ch

add_account(a) ==
    /\ accounts' = UpsertAccount(accounts, [account_name |-> a, status |-> "available"])
    /\ last' = Call("add_account", a, None, 0, None, {})
    /\ UNCHANGED <<now, account_channels, crawl_locks>>

remove_account(a) ==
    /\ accounts' = {r \in accounts : r.account_name # a}
    /\ account_channels' = {r \in account_channels : r.account_name # a}
    /\ crawl_locks' = {r \in crawl_locks : r.locked_by_session # a}
    /\ last' = Call("remove_account", a, None, 0, None, {})
    /\ UNCHANGED now

add_channel(a, c) ==
    /\ account_channels' = UpsertMembership(account_channels,
            [account_name |-> a, channel_id |-> c, joined_at |-> now, last_crawled |-> 0])
    /\ last' = Call("add_channel", a, c, 0, None, {})
    /\ UNCHANGED <<now, accounts, crawl_locks>>

remove_channel(a, c) ==
    /\ account_channels' =
            {r \in account_channels : ~(r.account_name = a /\ r.channel_id = c)}
    /\ last' = Call("remove_channel", a, c, 0, None, {})
    /\ UNCHANGED <<now, accounts, crawl_locks>>

is_channel_locked(c, timeout) ==
    LET found == LockRows(c) # {} IN  \* result is not None
    /\ IF found /\ Expired(FetchLock(c), timeout)
         THEN /\ crawl_locks' = DeleteLock(crawl_locks, c)
              /\ last' = Call("is_channel_locked", None, c, timeout, FALSE, LockRows(c))
         ELSE /\ crawl_locks' = crawl_locks
              /\ last' = Call("is_channel_locked", None, c, timeout, found, LockRows(c))
    /\ UNCHANGED <<now, accounts, account_channels>>

lock_channel(c, a) ==
    /\ IF ~HasJoined(a, c)
         THEN /\ crawl_locks' = crawl_locks
              /\ last' = Call("lock_channel", a, c, 0, FALSE, LockRows(c))
         ELSE /\ crawl_locks' = UpsertLock(crawl_locks,
                    [channel_id |-> c, locked_by_session |-> a, locked_at |-> now])
              /\ last' = Call("lock_channel", a, c, 0, TRUE, LockRows(c))
    /\ UNCHANGED <<now, accounts, account_channels>>

unlock_channel(c) ==
    /\ crawl_locks' = DeleteLock(crawl_locks, c)
    /\ last' = Call("unlock_channel", None, c, 0, None, LockRows(c))
    /\ UNCHANGED <<now, accounts, account_channels>>

\* The wall clock between two calls.
Tick ==
    /\ now < MaxTime
    /\ now' = now + 1
    /\ last' = Call("tick", None, None, 0, None, {})
    /\ UNCHANGED <<accounts, account_channels, crawl_locks>>

\* An UPDATE that writes the pair's row whether it is there or not.
UpdateCrawl_Upsert(table, a, c, t) ==
    UpsertMembership(table,
        [account_name |-> a, channel_id |-> c, joined_at |-> t, last_crawled |-> t])

\* UPDATE account_channels SET last_crawled = ? WHERE account_name = ? AND
\* channel_id = ?: the rows of the pair get the value, no row is added.
UpdateCrawl(table, a, c, t) ==
    {IF r.account_name = a /\ r.channel_id = c THEN [r EXCEPT !.last_crawled = t] ELSE r :
        r \in table}

\* last.ret is the value written, last.prev the pair's rows before the call.
update_channel_crawl(a, c, t) ==
    /\ account_channels' = UpdateCrawl(account_channels, a, c, t)
    /\ last' = Call("update_channel_crawl", a, c, 0, t,
                    {r \in account_channels : r.account_name = a /\ r.channel_id = c})
    /\ UNCHANGED <<now, accounts, crawl_locks>>

\* UPDATE account_channels SET last_crawled = 0
reset_all_crawled ==
    /\ account_channels' = {[r EXCEPT !.last_crawled = 0] : r \in account_channels}
    /\ last' = Call("reset_all_crawled", None, None, 0, None, {})
    /\ UNCHANGED <<now, accounts, crawl_locks>>

\* SELECT MAX(last_crawled) FROM account_channels WHERE channel_id = ?, and
\* "or 0" for the NULL of a channel without rows.
RECURSIVE MaxOf(_)
MaxOf(S) ==
    IF S = {} THEN 0
    ELSE LET x == CHOOSE y \in S : TRUE
             m == MaxOf(S \ {x})
         IN IF x > m THEN x ELSE m

MaxCrawled(table, c) == MaxOf({r.last_crawled : r \in {x \in table : x.channel_id = c}})

\* A test that counts a crawl exactly threshold seconds old as recent.
CrawledRecently_Le(table, c, threshold) == (now - MaxCrawled(table, c)) <= threshold

\* return (int(time.time()) - last_crawled) < threshold
CrawledRecently(table, c, threshold) == (now - MaxCrawled(table, c)) < threshold

\* last.prev is the channel's rows, last.timeout the threshold.
has_been_crawled_recently(c, threshold) ==
    /\ last' = Call("has_been_crawled_recently", None, c, threshold,
                    CrawledRecently(account_channels, c, threshold),
                    {r \in account_channels : r.channel_id = c})
    /\ UNCHANGED <<now, accounts, account_channels, crawl_locks>>

\* No lock task and no crawl task exists.
RaceIdle ==
    /\ rpc = [t \in RaceTasks |-> "start"]
    /\ racct = [t \in RaceTasks |-> "idA"]
    /\ rch = [t \in RaceTasks |-> "chan1"]

CrawlIdle ==
    /\ tg_accounts = {}
    /\ tg_channels = {}
    /\ account_queue = <<>>
    /\ required_channels = <<>>
    /\ is_banned = [a \in Accounts |-> FALSE]
    /\ client = [a \in Accounts |-> None]
    /\ cpc = [t \in CrawlTasks |-> "idle"]
    /\ cacct = [t \in CrawlTasks |-> None]
    /\ creq = [t \in CrawlTasks |-> <<>>]
    /\ cjoined = [t \in CrawlTasks |-> {}]
    /\ cmissing = [t \in CrawlTasks |-> <<>>]
    /\ cidx = [t \in CrawlTasks |-> 1]
    /\ mgr_accounts = <<>>
    /\ email_config = FALSE
    /\ sent = [n \in Accounts \cup {AllAccounts} |-> 0]

SchedIdle ==
    /\ pool = [a \in Identities |-> "Absent"]
    /\ conn = [a \in Identities |-> FALSE]
    /\ spc = "start"
    /\ tier = None
    /\ all_channels = <<>>
    /\ priority_channels = <<>>
    /\ scrape_channels = <<>>
    /\ sidx = 1
    /\ sheld = <<>>
    /\ exhausted = 0

\* No call of Account.connect has been made.
ConnIdle ==
    /\ session_file = "ok"
    /\ conn_pc = "idle"
    /\ retry_count = 0
    /\ rounds = 0
    /\ attempts = 0
    /\ sleeps = 0

\* Account.join_channel: await asyncio.sleep(random.uniform(3, 7))
JOIN_DELAY_MIN == 3
JOIN_DELAY_MAX == 7

\* No join loop has run; the account's last join call, if it ever made one, is
\* a long time ago.
JoinIdle ==
    /\ jpc = "idle"
    /\ jmissing = <<>>
    /\ jidx = 1
    /\ since_join = JOIN_DELAY_MIN

\* No channel file is watched.
LoaderIdle ==
    /\ file_state = "missing"
    /\ file_lines = <<>>
    /\ channels = <<>>
    /\ is_priority = FALSE

\* init_db: the three tables are created empty.
StoreInit ==
    /\ now = 0
    /\ accounts = {}
    /\ account_channels = {}
    /\ crawl_locks = {}
    /\ last = Call("init_db", None, None, 0, None, {})
    /\ RaceIdle
    /\ CrawlIdle
    /\ SchedIdle
    /\ ConnIdle
    /\ JoinIdle
    /\ LoaderIdle

\* The lock functions and the functions that write what they read, called in any
\* order. They leave the lock tasks and the crawl tasks alone. (add_account writes
\* the accounts table only, which none of these functions reads.)
StoreNext ==
    \/ \E a \in Accounts : remove_account(a) /\ UNCHANGED <<raceVars, crawlVars, poolVars, schedVars, connVars, joinVars, loaderVars>>
    \/ \E a \in Accounts, c \in Channels :
          add_channel(a, c) /\ UNCHANGED <<raceVars, crawlVars, poolVars, schedVars, connVars, joinVars, loaderVars>>
    \/ \E a \in Accounts, c \in Channels :
          remove_channel(a, c) /\ UNCHANGED <<raceVars, crawlVars, poolVars, schedVars, connVars, joinVars, loaderVars>>
    \/ \E c \in Channels, t \in Timeouts :
          is_channel_locked(c, t) /\ UNCHANGED <<raceVars, crawlVars, poolVars, schedVars, connVars, joinVars, loaderVars>>
    \/ \E c \in Channels, a \in Accounts :
          lock_channel(c, a) /\ UNCHANGED <<raceVars, crawlVars, poolVars, schedVars, connVars, joinVars, loaderVars>>
    \/ \E c \in Channels : unlock_channel(c) /\ UNCHANGED <<raceVars, crawlVars, poolVars, schedVars, connVars, joinVars, loaderVars>>
    \/ Tick /\ UNCHANGED <<raceVars, crawlVars, poolVars, schedVars, connVars, joinVars, loaderVars>>

SpecStore == StoreInit /\ [][StoreNext]_vars

\* ------------------------------------------------------------ lock tasks
\* Two tasks use the lock the way its two calls allow: is_channel_locked, then
\* lock_channel when it said False, then unlock_channel. Each call is one
\* connection and one transaction of its own; nothing joins the check to the set.
LockTimeout == MaxTimeout

TaskCheck(t) ==
    /\ rpc[t] = "start"
    /\ is_channel_locked(rch[t], LockTimeout)
    /\ rpc' = [rpc EXCEPT ![t] = IF last'.ret THEN "denied" ELSE "free"]
    /\ UNCHANGED <<racct, rch, crawlVars, poolVars, schedVars, connVars, joinVars, loaderVars>>

TaskLock(t) ==
    /\ rpc[t] = "free"
    /\ lock_channel(rch[t], racct[t])
    /\ rpc' = [rpc EXCEPT ![t] = IF last'.ret THEN "holding" ELSE "denied"]
    /\ UNCHANGED <<racct, rch, crawlVars, poolVars, schedVars, connVars, joinVars, loaderVars>>

TaskUnlock(t) ==
    /\ rpc[t] = "holding"
    /\ unlock_channel(rch[t])
    /\ rpc' = [rpc EXCEPT ![t] = "done"]
    /\ UNCHANGED <<racct, rch, crawlVars, poolVars, schedVars, connVars, joinVars, loaderVars>>

\* A finished or denied task comes back for another channel.
TaskAgain(t) ==
    /\ rpc[t] \in {"done", "denied"}
    /\ rpc' = [rpc EXCEPT ![t] = "start"]
    /\ \E c \in Channels : rch' = [rch EXCEPT ![t] = c]
    /\ last' = Call("again", racct[t], None, 0, None, {})
    /\ UNCHANGED <<now, accounts, account_channels, crawl_locks, racct, crawlVars, poolVars,
                   schedVars, connVars, joinVars, loaderVars>>

\* Every account is in the store and has joined every channel but the last one
\* of idB, so that a lock can also be refused for want of a membership.
RaceInit ==
    /\ now = 0
    /\ accounts = {[account_name |-> a, status |-> "available"] : a \in Accounts}
    /\ account_channels =
          {[account_name |-> a, channel_id |-> c, joined_at |-> 0, last_crawled |-> 0] :
              a \in Accounts, c \in Channels} \
          {[account_name |-> "idB", channel_id |-> "chan2", joined_at |-> 0,
            last_crawled |-> 0]}
    /\ crawl_locks = {}
    /\ last = Call("init_db", None, None, 0, None, {})
    /\ rpc = [t \in RaceTasks |-> "start"]
    /\ racct = [t \in RaceTasks |-> IF t = "t1" THEN "idA" ELSE "idB"]
    /\ rch \in [RaceTasks -> Channels]
    /\ CrawlIdle
    /\ SchedIdle
    /\ ConnIdle
    /\ JoinIdle
    /\ LoaderIdle

RaceNext ==
    \/ \E t \in RaceTasks : TaskCheck(t)
    \/ \E t \in RaceTasks : TaskLock(t)
    \/ \E t \in RaceTasks : TaskUnlock(t)
    \/ \E t \in RaceTasks : TaskAgain(t)

SpecRace == RaceInit /\ [][RaceNext]_vars

\* ------------------------------------------------------------ account_manager.py
\* Account._get_account_status: the row's status, 'active' when there is no row.
get_account_status(a) ==
    IF \E r \in tg_accounts : r.phone = a
        THEN (CHOOSE r \in tg_accounts : r.phone = a).status
        ELSE "active"

\* Account._update_account_status: UPDATE accounts SET status = ? WHERE phone = ?
update_account_status(table, a, st) ==
    {IF r.phone = a THEN [r EXCEPT !.status = st] ELSE r : r \in table}

\* INSERT OR REPLACE INTO accounts (phone, api_id, api_hash, status)
\* VALUES (?, ?, ?, 'active'): phone is the primary key.
ImportAccount(table, a) ==
    {r \in table : r.phone # a} \cup {[phone |-> a, status |-> "active"]}

\* for account in accounts_data['accounts']: INSERT OR REPLACE ...
RECURSIVE ImportAccounts(_, _)
ImportAccounts(table, file) ==
    IF file = <<>> THEN table
    ELSE ImportAccounts(ImportAccount(table, Head(file)), Tail(file))

\* AccountManager._initialize_database_once: tables and rows are written only
\* when the database file does not exist yet.
initialize_database_once(db_exists, table, file) ==
    IF ~db_exists THEN ImportAccounts({}, file) ELSE table

\* Account._add_channel_to_db: INSERT OR REPLACE INTO channels; (phone, channel)
\* is the primary key.
add_channel_to_db(table, a, c) ==
    {r \in table : ~(r.phone = a /\ r.channel = c)}
        \cup {[phone |-> a, channel |-> c, date_joined |-> now]}

\* Account.get_joined_channels_from_db
get_joined_channels_from_db(a) == {r.channel : r \in {x \in tg_channels : x.phone = a}}

\* Account.get_status: _get_account_status answers 'active' as well when the
\* read raises (sqlite3.Error or any other exception).
get_status(a, failed) == IF failed THEN "active" ELSE get_account_status(a)

\* AccountManager.get_active_account: the queue is read from its head; the first
\* account whose status is not 'banned' goes back to the tail and is returned,
\* banned ones are dropped; acct = None stands for RuntimeError. fails: the
\* accounts whose status read raises during this call. met: the accounts found
\* banned, in the order they were taken from the queue.
RECURSIVE get_active_account(_, _)
get_active_account(q, fails) ==
    IF q = <<>> THEN [acct |-> None, queue |-> <<>>, met |-> <<>>]
    ELSE IF get_status(Head(q), Head(q) \in fails) # "banned"
        THEN [acct |-> Head(q), queue |-> Append(Tail(q), Head(q)), met |-> <<>>]
        ELSE LET rest == get_active_account(Tail(q), fails)
             IN [rest EXCEPT !.met = <<Head(q)>> \o @]

\* get_active_account's calls of send_ban_notification: one for each account
\* found banned and one for "All accounts" before the RuntimeError, all of them
\* only when email_config is set. The count stops at MaxSent.
Notified(got) ==
    IF email_config
      THEN {got.met[i] : i \in 1..Len(got.met)}
             \cup (IF got.acct = None THEN {AllAccounts} ELSE {})
      ELSE {}

send_ban_notification(log, names) ==
    [n \in DOMAIN log |-> IF n \in names /\ log[n] < MaxSent THEN log[n] + 1 ELSE log[n]]

\* AccountManager._test_channels up to the call of process_channels.
test_channels(t, req) ==
    \E fails \in SUBSET Accounts :
      LET got == get_active_account(account_queue, fails) IN
      /\ account_queue' = got.queue
      /\ sent' = send_ban_notification(sent, Notified(got))
      /\ IF got.acct = None
           THEN /\ cpc' = [cpc EXCEPT ![t] = "raised"]
                /\ UNCHANGED <<cacct, creq>>
           ELSE /\ cpc' = [cpc EXCEPT ![t] = "connect"]
                /\ cacct' = [cacct EXCEPT ![t] = got.acct]
                /\ creq' = [creq EXCEPT ![t] = req]
      /\ UNCHANGED <<tg_accounts, tg_channels, is_banned, client, cjoined, cmissing, cidx>>
      /\ UNCHANGED <<storeVars, raceVars, mgr_accounts, email_config, schedVars, connVars, joinVars, loaderVars>>

\* main.py: await manager._test_channels()
main_test_channels ==
    /\ cpc["main"] = "idle"
    /\ test_channels("main", required_channels)
    /\ UNCHANGED required_channels

\* ChannelHandler.on_modified, on the observer's thread: the list is reloaded and
\* _test_channels runs in an event loop of its own.
on_modified ==
    /\ cpc["watcher"] \in {"idle", "done", "raised"}
    /\ \E l \in ChannelLists :
          /\ required_channels' = l
          /\ test_channels("watcher", l)

\* Account.connect, as process_channels awaits it.
connect(t) ==
    /\ cpc[t] = "connect"
    /\ \E outcome \in {"ok", "unreadable", "exhausted"} :
          /\ client' = CASE outcome = "ok" -> [client EXCEPT ![cacct[t]] = "connected"]
                         [] outcome = "unreadable" -> client
                         [] outcome = "exhausted" -> [client EXCEPT ![cacct[t]] = None]
          /\ cpc' = [cpc EXCEPT ![t] = IF outcome = "ok" THEN "check" ELSE "done"]
          /\ cacct' = [cacct EXCEPT ![t] = IF outcome = "ok" THEN @ ELSE None]
          /\ creq' = [creq EXCEPT ![t] = IF outcome = "ok" THEN @ ELSE <<>>]
    /\ UNCHANGED <<tg_accounts, tg_channels, account_queue, required_channels, is_banned,
                   cjoined, cmissing, cidx>>
    /\ UNCHANGED <<storeVars, raceVars, poolVars, schedVars, connVars, joinVars, loaderVars>>

\* process_channels: joined_channels_db and missing_channels.
check_missing(t) ==
    LET joined == get_joined_channels_from_db(cacct[t])
        NotJoined(c) == c \notin joined
        missing == SelectSeq(creq[t], NotJoined)
    IN
    /\ cpc[t] = "check"
    /\ cjoined' = [cjoined EXCEPT ![t] = IF missing = <<>> THEN {} ELSE joined]
    /\ cmissing' = [cmissing EXCEPT ![t] = missing]
    /\ cidx' = [cidx EXCEPT ![t] = 1]
    /\ cpc' = [cpc EXCEPT ![t] = IF missing = <<>> THEN "scrape" ELSE "sync"]
    /\ UNCHANGED <<tg_accounts, tg_channels, account_queue, required_channels, is_banned,
                   client, cacct, creq>>
    /\ UNCHANGED <<storeVars, raceVars, poolVars, schedVars, connVars, joinVars, loaderVars>>

RECURSIVE AddAll(_, _, _)
AddAll(table, a, cs) ==
    IF cs = {} THEN table
    ELSE LET c == CHOOSE x \in cs : TRUE
         IN AddAll(add_channel_to_db(table, a, c), a, cs \ {c})

\* process_channels: get_joined_channels, then the channels Telegram reports and
\* joined_channels_db lacks are written to the database. With the client gone
\* the call raises and the finally block runs. joined_channels_db is not read
\* again after this loop.
sync_joined(t) ==
    /\ cpc[t] = "sync"
    /\ IF client[cacct[t]] = None
         THEN /\ cpc' = [cpc EXCEPT ![t] = "finally"]
              /\ cjoined' = [cjoined EXCEPT ![t] = {}]
              /\ UNCHANGED tg_channels
         ELSE \E telegram \in SUBSET Channels :
              /\ tg_channels' = AddAll(tg_channels, cacct[t], telegram \ cjoined[t])
              /\ cjoined' = [cjoined EXCEPT ![t] = {}]
              /\ cpc' = [cpc EXCEPT ![t] = "join"]
    /\ UNCHANGED <<tg_accounts, account_queue, required_channels, is_banned, client,
                   cacct, creq, cmissing, cidx>>
    /\ UNCHANGED <<storeVars, raceVars, poolVars, schedVars, connVars, joinVars, loaderVars>>

\* process_channels: one round of the join loop, Account.join_channel included.
\* A failed JoinChannelRequest (or a client that is gone) is logged and skipped.
join_channel(t) ==
    LET c == cmissing[t][cidx[t]]
        last_one == cidx[t] = Len(cmissing[t])
    IN
    /\ cpc[t] = "join"
    /\ \E outcome \in {"ok", "error"} :
          IF outcome = "ok" /\ client[cacct[t]] # None
            THEN tg_channels' = add_channel_to_db(tg_channels, cacct[t], c)
            ELSE tg_channels' = tg_channels
    /\ cidx' = [cidx EXCEPT ![t] = IF last_one THEN 1 ELSE @ + 1]
    /\ cpc' = [cpc EXCEPT ![t] = IF last_one THEN "scrape" ELSE "join"]
    /\ cmissing' = [cmissing EXCEPT ![t] = IF last_one THEN <<>> ELSE @]
    /\ UNCHANGED <<tg_accounts, account_queue, required_channels, is_banned, client,
                   cacct, creq, cjoined>>
    /\ UNCHANGED <<storeVars, raceVars, poolVars, schedVars, connVars, joinVars, loaderVars>>

\* process_channels: the scrape loop up to the GetHistoryRequest of
\* Account.scrape_messages. A banned account and a missing client return [].
scrape_messages(t) ==
    /\ cpc[t] = "scrape"
    /\ IF cidx[t] > Len(creq[t])
         THEN cpc' = [cpc EXCEPT ![t] = "finally"] /\ cidx' = cidx
         ELSE IF is_banned[cacct[t]] \/ client[cacct[t]] = None
           THEN cpc' = cpc /\ cidx' = [cidx EXCEPT ![t] = @ + 1]
           ELSE cpc' = [cpc EXCEPT ![t] = "fetching"] /\ cidx' = cidx
    /\ UNCHANGED <<tg_accounts, tg_channels, account_queue, required_channels, is_banned,
                   client, cacct, creq, cjoined, cmissing>>
    /\ UNCHANGED <<storeVars, raceVars, poolVars, schedVars, connVars, joinVars, loaderVars>>

\* Account.scrape_messages: the GetHistoryRequest answers. FloodWait and
\* UserBannedInChannel set is_banned and write 'banned'.
fetch_done(t) ==
    /\ cpc[t] = "fetching"
    /\ \E outcome \in {"ok", "ban", "error"} :
          IF outcome = "ban"
            THEN /\ is_banned' = [is_banned EXCEPT ![cacct[t]] = TRUE]
                 /\ tg_accounts' = update_account_status(tg_accounts, cacct[t], "banned")
            ELSE UNCHANGED <<is_banned, tg_accounts>>
    /\ cpc' = [cpc EXCEPT ![t] = "scrape"]
    /\ cidx' = [cidx EXCEPT ![t] = @ + 1]
    /\ UNCHANGED <<tg_channels, account_queue, required_channels, client,
                   cacct, creq, cjoined, cmissing>>
    /\ UNCHANGED <<storeVars, raceVars, poolVars, schedVars, connVars, joinVars, loaderVars>>

\* process_channels: finally: await self.disconnect(); the run's locals end.
disconnect(t) ==
    /\ cpc[t] = "finally"
    /\ client' = [client EXCEPT ![cacct[t]] = None]
    /\ cpc' = [cpc EXCEPT ![t] = "done"]
    /\ cacct' = [cacct EXCEPT ![t] = None]
    /\ creq' = [creq EXCEPT ![t] = <<>>]
    /\ cmissing' = [cmissing EXCEPT ![t] = <<>>]
    /\ cidx' = [cidx EXCEPT ![t] = 1]
    /\ UNCHANGED <<tg_accounts, tg_channels, account_queue, required_channels, is_banned,
                   cjoined>>
    /\ UNCHANGED <<storeVars, raceVars, poolVars, schedVars, connVars, joinVars, loaderVars>>

\* db_utils.init_db(db_path, accounts_file): tables are created if missing, then
\* every account of the file is written with INSERT OR REPLACE ... 'active'.
db_utils_init_db ==
    /\ tg_accounts' = ImportAccounts(tg_accounts, AccountsFile)
    /\ UNCHANGED <<tg_channels, account_queue, required_channels, is_banned, client,
                   cpc, cacct, creq, cjoined, cmissing, cidx>>
    /\ UNCHANGED <<storeVars, raceVars, poolVars, schedVars, connVars, joinVars, loaderVars>>

\* The service starts again on the same telegram.db: AccountManager.__init__
\* loads the accounts (is_banned is read from the database), the channels and the
\* queue; _initialize_database_once finds the file and writes nothing.
restart ==
    /\ \E t \in CrawlTasks : cpc[t] # "idle"
    /\ tg_accounts' = initialize_database_once(TRUE, tg_accounts, AccountsFile)
    /\ is_banned' = [a \in Accounts |-> get_account_status(a) = "banned"]
    /\ account_queue' = mgr_accounts
    /\ \E l \in ChannelLists : required_channels' = l
    /\ client' = [a \in Accounts |-> None]
    /\ cpc' = [t \in CrawlTasks |-> "idle"]
    /\ cacct' = [t \in CrawlTasks |-> None]
    /\ creq' = [t \in CrawlTasks |-> <<>>]
    /\ cjoined' = [t \in CrawlTasks |-> {}]
    /\ cmissing' = [t \in CrawlTasks |-> <<>>]
    /\ cidx' = [t \in CrawlTasks |-> 1]
    /\ UNCHANGED tg_channels
    /\ UNCHANGED <<storeVars, raceVars, poolVars, schedVars, connVars, joinVars, loaderVars>>

\* The state AccountManager.__init__ leaves on a new telegram.db, constructed as
\* main.py constructs it: without email_config.
CrawlInit ==
    /\ now = 0
    /\ accounts = {}
    /\ account_channels = {}
    /\ crawl_locks = {}
    /\ last = Call("init_db", None, None, 0, None, {})
    /\ RaceIdle
    /\ tg_accounts = initialize_database_once(FALSE, {}, AccountsFile)
    /\ tg_channels = {}
    /\ account_queue = AccountsFile
    /\ required_channels \in ChannelLists
    /\ is_banned = [a \in Accounts |-> FALSE]
    /\ client = [a \in Accounts |-> None]
    /\ cpc = [t \in CrawlTasks |-> "idle"]
    /\ cacct = [t \in CrawlTasks |-> None]
    /\ creq = [t \in CrawlTasks |-> <<>>]
    /\ cjoined = [t \in CrawlTasks |-> {}]
    /\ cmissing = [t \in CrawlTasks |-> <<>>]
    /\ cidx = [t \in CrawlTasks |-> 1]
    /\ mgr_accounts = AccountsFile
    /\ email_config = FALSE
    /\ sent = [n \in Accounts \cup {AllAccounts} |-> 0]
    /\ SchedIdle
    /\ ConnIdle
    /\ JoinIdle
    /\ LoaderIdle

CrawlNext ==
    \/ main_test_channels
    \/ on_modified
    \/ \E t \in CrawlTasks : connect(t)
    \/ \E t \in CrawlTasks : check_missing(t)
    \/ \E t \in CrawlTasks : sync_joined(t)
    \/ \E t \in CrawlTasks : join_channel(t)
    \/ \E t \in CrawlTasks : scrape_messages(t)
    \/ \E t \in CrawlTasks : fetch_done(t)
    \/ \E t \in CrawlTasks : disconnect(t)
    \/ db_utils_init_db
    \/ restart

SpecCrawl == CrawlInit /\ [][CrawlNext]_vars

\* ------------------------------------------------------------ the account pool
\* The pool on its own: _test_channels takes an account (main_test_channels,
\* on_modified), process_channels runs with it and returns; of process_channels
\* only what the pool can see is kept. The accounts file holds none, one or two
\* accounts; telegram.db was written from that file or from a shorter one, so an
\* account may have no row; email_config is set or not.
PoolFiles == {<<>>, <<"idA">>, <<"idA", "idB">>}

IsPrefix(f, g) == Len(f) <= Len(g) /\ SubSeq(g, 1, Len(f)) = f

\* process_channels: a scrape_messages call of the run ends in FloodWait or
\* UserBannedInChannel: either text in the error sets is_banned and writes
\* 'banned'. last.ret names the error.
process_banned(t) ==
    /\ cpc[t] = "connect"
    /\ ~is_banned[cacct[t]]
    /\ is_banned' = [is_banned EXCEPT ![cacct[t]] = TRUE]
    /\ tg_accounts' = update_account_status(tg_accounts, cacct[t], "banned")
    /\ \E cause \in {"FloodWait", "UserBannedInChannel"} :
          last' = Call("scrape_messages", cacct[t], None, 0, cause, {})
    /\ UNCHANGED <<tg_channels, account_queue, required_channels, client, cpc, cacct,
                   creq, cjoined, cmissing, cidx>>
    /\ UNCHANGED <<now, accounts, account_channels, crawl_locks, raceVars, poolVars,
                   schedVars, connVars, joinVars, loaderVars>>

\* process_channels, the join loop: join_channel raises (the JoinChannelRequest
\* is answered with the account's ban); 'except Exception' logs "Failed to join"
\* and continues with the next channel.
process_join_banned(t) ==
    /\ cpc[t] = "connect"
    /\ last' = Call("join_channel", cacct[t], None, 0, "UserBannedInChannel", {})
    /\ UNCHANGED <<tg_accounts, tg_channels, account_queue, required_channels, is_banned,
                   client, cpc, cacct, creq, cjoined, cmissing, cidx>>
    /\ UNCHANGED <<now, accounts, account_channels, crawl_locks, raceVars, poolVars,
                   schedVars, connVars, joinVars, loaderVars>>

\* process_channels returns (connect failed, or the finally block has run).
process_returns(t) ==
    /\ cpc[t] = "connect"
    /\ cpc' = [cpc EXCEPT ![t] = "done"]
    /\ cacct' = [cacct EXCEPT ![t] = None]
    /\ creq' = [creq EXCEPT ![t] = <<>>]
    /\ last' = Call("process_channels", cacct[t], None, 0, None, {})
    /\ UNCHANGED <<tg_accounts, tg_channels, account_queue, required_channels, is_banned,
                   client, cjoined, cmissing, cidx>>
    /\ UNCHANGED <<now, accounts, account_channels, crawl_locks, raceVars, poolVars,
                   schedVars, connVars, joinVars, loaderVars>>

PoolInit ==
    /\ now = 0
    /\ accounts = {}
    /\ account_channels = {}
    /\ crawl_locks = {}
    /\ last = Call("init_db", None, None, 0, None, {})
    /\ RaceIdle
    /\ mgr_accounts \in PoolFiles
    /\ \E f \in PoolFiles :
          IsPrefix(f, mgr_accounts) /\ tg_accounts = ImportAccounts({}, f)
    /\ tg_channels = {}
    /\ account_queue = mgr_accounts
    /\ required_channels = <<"chan1">>
    /\ is_banned = [a \in Accounts |-> FALSE]
    /\ client = [a \in Accounts |-> None]
    /\ cpc = [t \in CrawlTasks |-> "idle"]
    /\ cacct = [t \in CrawlTasks |-> None]
    /\ creq = [t \in CrawlTasks |-> <<>>]
    /\ cjoined = [t \in CrawlTasks |-> {}]
    /\ cmissing = [t \in CrawlTasks |-> <<>>]
    /\ cidx = [t \in CrawlTasks |-> 1]
    /\ email_config \in BOOLEAN
    /\ sent = [n \in Accounts \cup {AllAccounts} |-> 0]
    /\ SchedIdle
    /\ ConnIdle
    /\ JoinIdle
    /\ LoaderIdle

PoolNext ==
    \/ main_test_channels
    \/ on_modified
    \/ \E t \in CrawlTasks : process_banned(t)
    \/ \E t \in CrawlTasks : process_join_banned(t)
    \/ \E t \in CrawlTasks : process_returns(t)
    \/ restart

SpecPool == PoolInit /\ [][PoolNext]_vars

\* ------------------------------------------------------------ joined channels
\* The channels table of telegram.db on its own: memberships are written
\* (db_utils.add_channel, Account._add_channel_to_db) and the missing channels of
\* an account are computed against a required list, by db_utils.get_new_channels
\* and by the first step of process_channels. failed: the SELECT of the
\* account's channels raises (sqlite3.Error or any other exception).
RequiredLists ==
    ChannelLists \cup {<<"chan2">>, <<"chan2", "chan1">>, <<"chan2", "chan1", "chan2">>}

\* db_utils.get_joined_channels and Account.get_joined_channels_from_db: the
\* channels of the account's rows, [] when the read raises.
get_joined_channels(table, a, failed) ==
    IF failed THEN {} ELSE {r.channel : r \in {x \in table : x.phone = a}}

\* db_utils.get_new_channels, and missing_channels of process_channels:
\* [channel for channel in required_channels if channel not in joined]
get_new_channels(table, a, req, failed) ==
    LET joined == get_joined_channels(table, a, failed)
        NotJoined(c) == c \notin joined
    IN SelectSeq(req, NotJoined)

\* last.ch is the required list, last.ret the list returned, last.prev the
\* channels of the account's rows, last.timeout counts the failed read.
new_channels(a, req) ==
    /\ \E failed \in BOOLEAN :
          last' = Call("get_new_channels", a, req, IF failed THEN 1 ELSE 0,
                       get_new_channels(tg_channels, a, req, failed),
                       get_joined_channels(tg_channels, a, FALSE))
    /\ UNCHANGED <<now, accounts, account_channels, crawl_locks, raceVars, crawlVars,
                   poolVars, schedVars, connVars, joinVars, loaderVars>>

\* The join is persisted: INSERT OR REPLACE INTO channels, date_joined = utcnow.
db_utils_add_channel(a, c) ==
    /\ tg_channels' = add_channel_to_db(tg_channels, a, c)
    /\ last' = Call("db_utils_add_channel", a, c, 0, None, {})
    /\ UNCHANGED <<tg_accounts, account_queue, required_channels, is_banned, client,
                   cpc, cacct, creq, cjoined, cmissing, cidx>>
    /\ UNCHANGED <<now, accounts, account_channels, crawl_locks, raceVars, poolVars,
                   schedVars, connVars, joinVars, loaderVars>>

JoinedNext ==
    \/ \E a \in Accounts, c \in Channels : db_utils_add_channel(a, c)
    \/ \E a \in Accounts, req \in RequiredLists : new_channels(a, req)
    \/ Tick /\ UNCHANGED <<raceVars, crawlVars, poolVars, schedVars, connVars, joinVars, loaderVars>>

SpecJoined == StoreInit /\ [][JoinedNext]_vars

\* ------------------------------------------------------------ Account.connect
\* One account, idA, and the calls of its connect, step by step: a round of the
\* while loop runs from the checks of the session file to the return, or to the
\* sleep that follows a failed client.start(). The session file is removed,
\* made inaccessible and restored from outside at any time.
max_retries == 5
RETRY_DELAY == 5
SessionStates == {"ok", "missing", "no_access"}

\* while retry_count < max_retries
LoopsOn(rc) == rc < max_retries

\* A sleep after every failed attempt, the last one too.
SleepsAgain_Always(rc) == TRUE

\* except Exception: retry_count += 1; if retry_count < max_retries: sleep
SleepsAgain(rc) == rc < max_retries

\* process_channels calls connect. The run before it has ended: after True its
\* finally block has disconnected the client (client = None), after False it
\* returned at once and the client is what connect left.
connect_call ==
    /\ conn_pc \in {"idle", "returned"}
    /\ conn_pc' = "loop"
    /\ retry_count' = 0
    /\ rounds' = 0 /\ attempts' = 0 /\ sleeps' = 0
    /\ client' = [client EXCEPT !["idA"] = IF @ = "connected" THEN None ELSE @]
    /\ last' = Call("connect", "idA", None, 0, None, {})
    /\ UNCHANGED <<tg_accounts, tg_channels, account_queue, required_channels, is_banned,
                   cpc, cacct, creq, cjoined, cmissing, cidx>>
    /\ UNCHANGED <<session_file, now, accounts, account_channels, crawl_locks, raceVars,
                   poolVars, schedVars, joinVars, loaderVars>>

\* One round of the loop. os.path.exists and os.access are asked first; a file
\* that is missing or not readable and writable returns False. Otherwise the
\* client is made and started: it connects (return True) or raises; after the
\* exception the call sleeps, or gives up with client = None and False.
\* last.ret is the value returned.
connect_round ==
    /\ conn_pc = "loop"
    /\ IF ~LoopsOn(retry_count)
         THEN /\ conn_pc' = "returned"
              /\ last' = Call("connect_return", "idA", None, 0, None, {})
              /\ UNCHANGED <<retry_count, rounds, attempts, sleeps, client>>
         ELSE /\ rounds' = rounds + 1
              /\ IF session_file # "ok"
                   THEN /\ conn_pc' = "returned"
                        /\ last' = Call("connect_return", "idA", None, 0, FALSE, {})
                        /\ UNCHANGED <<retry_count, attempts, sleeps, client>>
                   ELSE /\ attempts' = attempts + 1
                        /\ \/ /\ client' = [client EXCEPT !["idA"] = "connected"]
                              /\ conn_pc' = "returned"
                              /\ last' = Call("connect_return", "idA", None, 0, TRUE, {})
                              /\ UNCHANGED <<retry_count, sleeps>>
                           \/ /\ retry_count' = retry_count + 1
                              /\ IF SleepsAgain(retry_count')
                                   THEN /\ conn_pc' = "sleeping"
                                        /\ sleeps' = sleeps + 1
                                        /\ client' = [client EXCEPT !["idA"] = "unstarted"]
                                        /\ last' = Call("start_failed", "idA", None, 0,
                                                        None, {})
                                   ELSE /\ conn_pc' = "returned"
                                        /\ sleeps' = sleeps
                                        /\ client' = [client EXCEPT !["idA"] = None]
                                        /\ last' = Call("connect_return", "idA", None, 0,
                                                        FALSE, {})
    /\ UNCHANGED <<tg_accounts, tg_channels, account_queue, required_channels, is_banned,
                   cpc, cacct, creq, cjoined, cmissing, cidx>>
    /\ UNCHANGED <<session_file, now, accounts, account_channels, crawl_locks, raceVars,
                   poolVars, schedVars, joinVars, loaderVars>>

\* await asyncio.sleep(5) is over: the loop's next round.
connect_wake ==
    /\ conn_pc = "sleeping"
    /\ conn_pc' = "loop"
    /\ last' = Call("sleep", "idA", None, RETRY_DELAY, None, {})
    /\ UNCHANGED <<session_file, retry_count, rounds, attempts, sleeps>>
    /\ UNCHANGED <<now, accounts, account_channels, crawl_locks, raceVars, crawlVars,
                   poolVars, schedVars, joinVars, loaderVars>>

\* The session file is deleted, loses its permissions or is put back.
session_file_changes ==
    /\ \E f \in SessionStates \ {session_file} : session_file' = f
    /\ last' = Call("session_file", "idA", None, 0, session_file', {})
    /\ UNCHANGED <<conn_pc, retry_count, rounds, attempts, sleeps>>
    /\ UNCHANGED <<now, accounts, account_channels, crawl_locks, raceVars, crawlVars,
                   poolVars, schedVars, joinVars, loaderVars>>

ConnectNext ==
    \/ connect_call
    \/ connect_round
    \/ connect_wake
    \/ session_file_changes

SpecConnect == StoreInit /\ [][ConnectNext]_vars

\* The call is a coroutine of a running event loop: its next round and the end
\* of its sleep are not put off for ever.
ConnectFairness == WF_vars(connect_round) /\ WF_vars(connect_wake)

SpecConnectFair == SpecConnect /\ ConnectFairness

\* ------------------------------------------------------------ the join loop
\* The join loop of process_channels for one account, idA, with the time that
\* passes between its join calls: since_join counts the seconds since the
\* account's last JoinChannelRequest was sent and stops counting at the
\* shortest delay join_channel sleeps, asyncio.sleep(random.uniform(3, 7)).
MissingLists == {<<"chan1">>, <<"chan1", "chan2">>, <<"chan2", "chan1">>}

Elapse(since, d) ==
    IF since + d > JOIN_DELAY_MIN THEN JOIN_DELAY_MIN ELSE since + d

\* process_channels has found missing channels and comes to the join loop.
join_loop_start ==
    /\ jpc \in {"idle", "done"}
    /\ \E l \in MissingLists : jmissing' = l
    /\ jidx' = 1
    /\ jpc' = "loop"
    /\ last' = Call("process_channels", "idA", None, 0, None, {})
    /\ UNCHANGED <<since_join, now, accounts, account_channels, crawl_locks, raceVars,
                   crawlVars, poolVars, schedVars, connVars, loaderVars>>

\* for channel in missing_channels: join_channel sends the JoinChannelRequest;
\* after the last channel the loop is over.
join_request ==
    /\ jpc = "loop"
    /\ IF jidx > Len(jmissing)
         THEN /\ jpc' = "done"
              /\ last' = Call("join_loop_done", "idA", None, 0, None, {})
              /\ UNCHANGED since_join
         ELSE /\ jpc' = "joining"
              /\ since_join' = 0
              /\ last' = Call("join_request", "idA", jmissing[jidx], 0, None, {})
    /\ UNCHANGED <<jmissing, jidx, now, accounts, account_channels, crawl_locks, raceVars,
                   crawlVars, poolVars, schedVars, connVars, loaderVars>>

\* The request is answered. Joined: the membership is written and the sleep
\* begins. An exception leaves join_channel before its sleep; the loop logs it
\* and continues with the next channel.
join_answer ==
    /\ jpc = "joining"
    /\ \/ /\ tg_channels' = add_channel_to_db(tg_channels, "idA", jmissing[jidx])
          /\ jpc' = "delay"
          /\ jidx' = jidx
          /\ last' = Call("join_channel", "idA", jmissing[jidx], 0, "ok", {})
       \/ /\ tg_channels' = tg_channels
          /\ jpc' = "loop"
          /\ jidx' = jidx + 1
          /\ last' = Call("join_channel", "idA", jmissing[jidx], 0, "error", {})
    /\ UNCHANGED <<tg_accounts, account_queue, required_channels, is_banned, client,
                   cpc, cacct, creq, cjoined, cmissing, cidx>>
    /\ UNCHANGED <<jmissing, since_join, now, accounts, account_channels, crawl_locks,
                   raceVars, poolVars, schedVars, connVars, loaderVars>>

\* await asyncio.sleep(random.uniform(3, 7)) is over.
join_delay ==
    /\ jpc = "delay"
    /\ \E d \in {JOIN_DELAY_MIN, JOIN_DELAY_MAX} : since_join' = Elapse(since_join, d)
    /\ jpc' = "loop"
    /\ jidx' = jidx + 1
    /\ last' = Call("join_sleep", "idA", None, 0, None, {})
    /\ UNCHANGED <<jmissing, now, accounts, account_channels, crawl_locks, raceVars,
                   crawlVars, poolVars, schedVars, connVars, loaderVars>>

\* A second passes while the request is on its way or between two runs.
join_time_passes ==
    /\ jpc \in {"joining", "done"}
    /\ since_join < JOIN_DELAY_MIN
    /\ since_join' = Elapse(since_join, 1)
    /\ last' = Call("second", None, None, 0, None, {})
    /\ UNCHANGED <<jpc, jmissing, jidx, now, accounts, account_channels, crawl_locks,
                   raceVars, crawlVars, poolVars, schedVars, connVars, loaderVars>>

JoinNext ==
    \/ join_loop_start
    \/ join_request
    \/ join_answer
    \/ join_delay
    \/ join_time_passes

SpecJoin == StoreInit /\ [][JoinNext]_vars

\* ------------------------------------------------------------ memberships
\* The functions of dbstate.py that write account_channels, called in any order
\* with any account, channel and crawl time.
CrawlTimes == 0..MaxTime

MemberNext ==
    \/ \E a \in Accounts : remove_account(a) /\ UNCHANGED <<raceVars, crawlVars, poolVars, schedVars, connVars, joinVars, loaderVars>>
    \/ \E a \in Accounts, c \in Channels :
          add_channel(a, c) /\ UNCHANGED <<raceVars, crawlVars, poolVars, schedVars, connVars, joinVars, loaderVars>>
    \/ \E a \in Accounts, c \in Channels :
          remove_channel(a, c) /\ UNCHANGED <<raceVars, crawlVars, poolVars, schedVars, connVars, joinVars, loaderVars>>
    \/ \E a \in Accounts, c \in Channels, t \in CrawlTimes :
          update_channel_crawl(a, c, t) /\ UNCHANGED <<raceVars, crawlVars, poolVars, schedVars, connVars, joinVars, loaderVars>>
    \/ \E c \in Channels, t \in Timeouts :
          has_been_crawled_recently(c, t) /\ UNCHANGED <<raceVars, crawlVars, poolVars, schedVars, connVars, joinVars, loaderVars>>
    \/ reset_all_crawled /\ UNCHANGED <<raceVars, crawlVars, poolVars, schedVars, connVars, joinVars, loaderVars>>
    \/ Tick /\ UNCHANGED <<raceVars, crawlVars, poolVars, schedVars, connVars, joinVars, loaderVars>>

SpecMember == StoreInit /\ [][MemberNext]_vars

\* ------------------------------------------------------------ the three tables
\* dbstate.py as its own main uses it: accounts are added and removed,
\* memberships and locks are written, in any order. No connection sets PRAGMA
\* foreign_keys, so the FOREIGN KEY clauses of init_db are not enforced.
RefNext ==
    \/ \E a \in Accounts : add_account(a) /\ UNCHANGED <<raceVars, crawlVars, poolVars, schedVars, connVars, joinVars, loaderVars>>
    \/ \E a \in Accounts : remove_account(a) /\ UNCHANGED <<raceVars, crawlVars, poolVars, schedVars, connVars, joinVars, loaderVars>>
    \/ \E a \in Accounts, c \in Channels :
          add_channel(a, c) /\ UNCHANGED <<raceVars, crawlVars, poolVars, schedVars, connVars, joinVars, loaderVars>>
    \/ \E a \in Accounts, c \in Channels :
          remove_channel(a, c) /\ UNCHANGED <<raceVars, crawlVars, poolVars, schedVars, connVars, joinVars, loaderVars>>
    \/ \E c \in Channels, a \in Accounts :
          lock_channel(c, a) /\ UNCHANGED <<raceVars, crawlVars, poolVars, schedVars, connVars, joinVars, loaderVars>>
    \/ \E c \in Channels : unlock_channel(c) /\ UNCHANGED <<raceVars, crawlVars, poolVars, schedVars, connVars, joinVars, loaderVars>>

SpecRef == StoreInit /\ [][RefNext]_vars

\* ------------------------------------------------------------ lock claims
RowOf(table, ch) == {r \in table : r.channel_id = ch}

\* C1: while a live lock on a channel is held by account A, lock_channel on that
\* channel by another account B returns False and leaves the lock row (holder and
\* acquisition time) as it was.
C1_LiveLockDeniesOthers ==
    [][(/\ last'.op = "lock_channel"
        /\ \E r \in crawl_locks, t \in Timeouts :
              /\ r.channel_id = last'.ch
              /\ r.locked_by_session # last'.acct
              /\ now - r.locked_at < t)
       => (last'.ret = FALSE /\ crawl_locks' = crawl_locks)]_vars

\* C4: the lock table holds at most one row per channel id.
C4_OneLockRowPerChannel ==
    \A r1 \in crawl_locks, r2 \in crawl_locks :
        r1.channel_id = r2.channel_id => r1 = r2

C4_Witness ==
    /\ last.op = "lock_channel" /\ last.ret = TRUE
    /\ \E r \in last.prev : r.locked_by_session # last.acct
    /\ RowOf(crawl_locks, last.ch) =
          {[channel_id |-> last.ch, locked_by_session |-> last.acct, locked_at |-> now]}

\* C5 as claimed: once more than the timeout has passed since A took the lock, a
\* lock attempt by any other holder B succeeds and the holder becomes B.
C5_ExpiredLockReclaimableByAny ==
    [][(/\ last'.op = "lock_channel"
        /\ \E r \in crawl_locks, t \in Timeouts :
              /\ r.channel_id = last'.ch
              /\ r.locked_by_session # last'.acct
              /\ now - r.locked_at > t)
       => (/\ last'.ret = TRUE
           /\ \A r \in RowOf(crawl_locks', last'.ch) : r.locked_by_session = last'.acct)]_vars

\* C5 (amended): once more than the timeout has passed since A took the lock, a
\* lock attempt by another holder B that has a membership row for the channel
\* succeeds, and the channel's one lock row then names B with the current time.
C5_ExpiredLockReclaimableByMember ==
    [][(/\ last'.op = "lock_channel"
        /\ \E m \in account_channels :
              m.account_name = last'.acct /\ m.channel_id = last'.ch
        /\ \E r \in crawl_locks, t \in Timeouts :
              /\ r.channel_id = last'.ch
              /\ r.locked_by_session # last'.acct
              /\ now - r.locked_at > t)
       => (/\ last'.ret = TRUE
           /\ RowOf(crawl_locks', last'.ch) =
                {[channel_id |-> last'.ch, locked_by_session |-> last'.acct,
                  locked_at |-> now]})]_vars

C5_Witness ==
    /\ last.op = "lock_channel" /\ last.ret = TRUE
    /\ \E r \in last.prev, t \in Timeouts :
          r.locked_by_session # last.acct /\ now - r.locked_at > t
    /\ \E r \in crawl_locks :
          r.channel_id = last.ch /\ r.locked_by_session = last.acct /\ r.locked_at = now

\* C6 as claimed: is_channel_locked returns True iff a lock row of the channel
\* exists with now - locked_at < timeout.
C6_LiveIffStrictlyYounger ==
    [][last'.op = "is_channel_locked"
       => (last'.ret = TRUE <=>
             \E r \in crawl_locks :
                r.channel_id = last'.ch /\ now - r.locked_at < last'.timeout)]_vars

\* C6 (amended): is_channel_locked returns True iff a lock row of the channel
\* exists with now - locked_at <= timeout; at now - locked_at = timeout it
\* returns True.
C6_LiveIffNotOlder ==
    [][last'.op = "is_channel_locked"
       => (last'.ret = TRUE <=>
             \E r \in crawl_locks :
                r.channel_id = last'.ch /\ now - r.locked_at <= last'.timeout)]_vars

C6_Witness ==
    /\ last.op = "is_channel_locked" /\ last.ret = TRUE /\ last.timeout > 0
    /\ \E r \in last.prev : now - r.locked_at = last.timeout

\* C7 as claimed: is_channel_locked changes no table.
C7_IsLockedReadOnly ==
    [][last'.op = "is_channel_locked"
       => (/\ crawl_locks' = crawl_locks
           /\ accounts' = accounts
           /\ account_channels' = account_channels)]_vars

\* C7 (amended): is_channel_locked changes nothing except that it deletes the
\* channel's own lock row when that row is older than the timeout; the other
\* channels' lock rows and the other tables are unchanged.
C7_IsLockedPurgesOnlyExpired ==
    [][last'.op = "is_channel_locked"
       => (/\ crawl_locks' =
                {r \in crawl_locks :
                    ~(r.channel_id = last'.ch /\ now - r.locked_at > last'.timeout)}
           /\ accounts' = accounts
           /\ account_channels' = account_channels)]_vars

C7_Witness ==
    /\ last.op = "is_channel_locked" /\ last.ret = FALSE
    /\ \E r \in last.prev : now - r.locked_at > last.timeout
    /\ RowOf(crawl_locks, last.ch) = {}
    /\ crawl_locks # {}

\* C8: unlock_channel leaves no lock row of the channel whoever held it, leaves
\* the other channels' rows and the other tables as they were, and a second call
\* changes nothing more.
C8_UnlockUnconditionalIdempotent ==
    [][last'.op = "unlock_channel"
       => (/\ RowOf(crawl_locks', last'.ch) = {}
           /\ \A c \in Channels \ {last'.ch} :
                 RowOf(crawl_locks', c) = RowOf(crawl_locks, c)
           /\ DeleteLock(crawl_locks', last'.ch) = crawl_locks'
           /\ accounts' = accounts
           /\ account_channels' = account_channels)]_vars

C8_Witness ==
    /\ last.op = "unlock_channel"
    /\ \E r \in last.prev, t \in Timeouts : now - r.locked_at > t
    /\ RowOf(crawl_locks, last.ch) = {}
    /\ crawl_locks # {}

\* C9: lock_channel returns False and leaves the lock table unchanged when the
\* account has no membership row for the channel; when it returns True the
\* membership row exists and the channel's lock row names that account with the
\* current time.
C9_LockNeedsMembership ==
    [][last'.op = "lock_channel"
       => LET joined == \E m \in account_channels :
                            m.account_name = last'.acct /\ m.channel_id = last'.ch
          IN /\ ~joined => (last'.ret = FALSE /\ crawl_locks' = crawl_locks)
             /\ last'.ret = TRUE =>
                   /\ joined
                   /\ [channel_id |-> last'.ch, locked_by_session |-> last'.acct,
                       locked_at |-> now] \in crawl_locks']_vars

C9_Witness ==
    /\ last.op = "lock_channel" /\ last.ret = FALSE
    /\ ~\E m \in account_channels :
            m.account_name = last.acct /\ m.channel_id = last.ch
    /\ last.prev # {} /\ RowOf(crawl_locks, last.ch) = last.prev

\* C2: of two tasks that each check is_channel_locked and then call lock_channel
\* on the same channel, at most one holds the lock at a time, under every
\* interleaving of their calls (the clock stands still: no lock expires).
C2_AtMostOneAcquires ==
    \A t1 \in RaceTasks, t2 \in RaceTasks :
        (t1 # t2 /\ rch[t1] = rch[t2]) => ~(rpc[t1] = "holding" /\ rpc[t2] = "holding")

\* ------------------------------------------------------------ crawl claims
Fetching(t) == cpc[t] = "fetching"
FetchChannel(t) == creq[t][cidx[t]]

\* C3: every fetch of a channel happens while the fetching account holds the
\* channel's lock row, and two different accounts never fetch the same channel at
\* the same time, the watcher's crawl included.
C3_FetchOnlyUnderLock ==
    /\ \A t \in CrawlTasks :
          Fetching(t) =>
            \E r \in crawl_locks :
                r.channel_id = FetchChannel(t) /\ r.locked_by_session = cacct[t]
    /\ \A t1 \in CrawlTasks, t2 \in CrawlTasks :
          (t1 # t2 /\ Fetching(t1) /\ Fetching(t2) /\ cacct[t1] # cacct[t2])
            => FetchChannel(t1) # FetchChannel(t2)

\* The second half of C3 alone: no two accounts fetch the same channel at once.
C3_NoOverlappingFetch ==
    \A t1 \in CrawlTasks, t2 \in CrawlTasks :
        (t1 # t2 /\ Fetching(t1) /\ Fetching(t2) /\ cacct[t1] # cacct[t2])
          => FetchChannel(t1) # FetchChannel(t2)

\* C10: once an account's persisted status is banned, no step of the pool, of a
\* crawl or of start-up makes it anything else.
C10_BannedStaysBanned ==
    [][\A a \in Accounts :
          (\E r \in tg_accounts : r.phone = a /\ r.status = "banned")
            => (\E r \in tg_accounts' : r.phone = a /\ r.status = "banned")]_vars

\* ------------------------------------------------------------ telegram_scraper.py
NORMAL_INTERVAL == 3600
FALLBACK_INTERVAL == 21600
FALLBACK_CHANNEL_LIMIT == 5

\* the lists telegram_channels.txt and priority_channels.txt may hold
TargetLists == {<<"chan1", "chan2">>,
                <<"chan1", "chan2", "chan3", "chan4", "chan5", "chan6">>}
PriorityLists == {<<>>, <<"chan2">>,
                  <<"chan6", "chan5", "chan4", "chan3", "chan2", "chan1">>}

\* mgr.active_count(): the identities that are not banned.
ActiveCount(p) == Cardinality({a \in Identities : p[a] \in {"Available", "InUse"}})

\* mgr.get_random_available_account(): the candidates, any of which may be
\* chosen; the chosen one becomes InUse; with no candidate the call raises.
Available(p) == {a \in Identities : p[a] = "Available"}
acquire(p, a) == [p EXCEPT ![a] = "InUse"]

\* mgr.mark_banned(name): any status becomes Banned.
mark_banned(p, a) == [p EXCEPT ![a] = "Banned"]

\* mgr.update_accounts(): identities whose session file is gone leave the pool.
update_accounts(p, gone) == [a \in Identities |-> IF a \in gone THEN "Absent" ELSE p[a]]

\* list[:n]
Slice(l, n) == SubSeq(l, 1, IF Len(l) < n THEN Len(l) ELSE n)

\* main: if active_accounts < 1: ... break
NoneActive_Never(n) == FALSE
NoneActive(n) == n < 1

\* main: if active_accounts == 1: (fallback mode) else: (normal mode)
Tier_BelowThree(n) == IF n < 3 THEN "Fallback" ELSE "Normal"
Tier(n) == IF n = 1 THEN "Fallback" ELSE "Normal"

Interval(t) == IF t = "Fallback" THEN FALLBACK_INTERVAL ELSE NORMAL_INTERVAL

\* main: scrape_channels of the two branches.
SelectChannels_AllPriority(t, all, prio) ==
    IF t = "Fallback" THEN (IF prio # <<>> THEN prio ELSE Slice(all, FALLBACK_CHANNEL_LIMIT))
    ELSE all
SelectChannels(t, all, prio) ==
    IF t = "Fallback"
      THEN (IF prio # <<>> THEN Slice(prio, FALLBACK_CHANNEL_LIMIT)
                          ELSE Slice(all, FALLBACK_CHANNEL_LIMIT))
      ELSE all

\* main, before the loop: with no active account the "Critical: No Active
\* Accounts" e-mail is sent and main returns.
sched_start ==
    /\ spc = "start"
    /\ IF NoneActive(ActiveCount(pool))
         THEN spc' = "stopped" /\ exhausted' = exhausted + 1
         ELSE spc' = "cycle" /\ exhausted' = exhausted
    /\ last' = Call("start", None, None, 0, spc', {})
    /\ UNCHANGED <<pool, conn, tier, all_channels, priority_channels, scrape_channels,
                   sidx, sheld>>
    /\ UNCHANGED <<now, accounts, account_channels, crawl_locks, raceVars, crawlVars,
                   poolVars, connVars, joinVars, loaderVars>>

\* main, the head of the while loop: update_accounts, active_count, the
\* "Critical: All Accounts Banned" e-mail and break, or the mode and the
\* cycle's channels. At most one session file goes missing between two cycles.
sched_cycle ==
    /\ spc = "cycle"
    /\ \E gone \in {{}} \cup {{a} : a \in Identities} :
          pool' = update_accounts(pool, gone)
    /\ IF NoneActive(ActiveCount(pool'))
         THEN /\ exhausted' = exhausted + 1
              /\ spc' = "stopped"
              /\ UNCHANGED <<tier, scrape_channels>>
         ELSE /\ exhausted' = exhausted
              /\ tier' = Tier(ActiveCount(pool'))
              /\ scrape_channels' = SelectChannels(tier', all_channels, priority_channels)
              /\ spc' = "joins"
    /\ last' = Call("cycle", None, None, 0, spc', {tier})
    /\ UNCHANGED <<conn, all_channels, priority_channels, sidx, sheld>>
    /\ UNCHANGED <<now, accounts, account_channels, crawl_locks, raceVars, crawlVars,
                   poolVars, connVars, joinVars, loaderVars>>

\* update_channel_joins(mgr, all_channels): every account that is not banned
\* gets a client, joins, and disconnects; an exception in one account's round is
\* logged and skips that account's disconnect.
update_channel_joins ==
    /\ spc = "joins"
    /\ \E bad \in {None} \cup {a \in Identities : pool[a] \in {"Available", "InUse"}} :
          conn' = [a \in Identities |->
                     IF a = bad THEN TRUE
                     ELSE IF pool[a] \in {"Available", "InUse"} THEN FALSE
                     ELSE conn[a]]
    /\ spc' = "loop"
    /\ sidx' = 1
    /\ last' = Call("update_channel_joins", None, None, 0, None, {})
    /\ UNCHANGED <<pool, tier, all_channels, priority_channels, scrape_channels, sheld,
                   exhausted>>
    /\ UNCHANGED <<now, accounts, account_channels, crawl_locks, raceVars, crawlVars,
                   poolVars, connVars, joinVars, loaderVars>>

\* A loop that stays on the channel it has just left.
NextChannel_Same(i) == i

\* for channel in scrape_channels: the loop's next round, also out of the
\* except block.
NextChannel(i) == i + 1

\* main, the for loop's try block up to scrape_channel: an account is taken and
\* its client is got. With no available account, or when get_client raises, the
\* except block logs and the loop goes on to the next channel.
sched_acquire ==
    LET ch == scrape_channels[sidx] IN
    /\ spc = "loop"
    /\ sidx <= Len(scrape_channels)
    /\ IF Available(pool) = {}
         THEN /\ last' = Call("acquire", None, ch, 0, "NoIdentityAvailable", {})
              /\ sidx' = NextChannel(sidx)
              /\ UNCHANGED <<pool, conn, spc, sheld>>
         ELSE \E a \in Available(pool), client_ok \in BOOLEAN :
              /\ pool' = acquire(pool, a)
              /\ IF client_ok
                   THEN /\ conn' = [conn EXCEPT ![a] = TRUE]
                        /\ sheld' = <<a>>
                        /\ spc' = "fetch"
                        /\ sidx' = sidx
                        /\ last' = Call("acquire", a, ch, 0, "ok", {})
                   ELSE /\ last' = Call("acquire", a, ch, 0, "client_error", {a})
                        /\ sidx' = NextChannel(sidx)
                        /\ UNCHANGED <<conn, spc, sheld>>
    /\ UNCHANGED <<tier, all_channels, priority_channels, scrape_channels, exhausted>>
    /\ UNCHANGED <<now, accounts, account_channels, crawl_locks, raceVars, crawlVars,
                   poolVars, connVars, joinVars, loaderVars>>

\* main: the for loop is through; "Completed crawl cycle".
sched_cycle_end ==
    /\ spc = "loop"
    /\ sidx > Len(scrape_channels)
    /\ spc' = "sleep"
    /\ sidx' = 1
    /\ last' = Call("cycle_end", None, None, 0, None, {})
    /\ UNCHANGED <<pool, conn, tier, all_channels, priority_channels, scrape_channels,
                   sheld, exhausted>>
    /\ UNCHANGED <<now, accounts, account_channels, crawl_locks, raceVars, crawlVars,
                   poolVars, connVars, joinVars, loaderVars>>

\* scrape_channel: iter_messages of the newest client answers. Without a ban
\* every open call of scrape_channel returns and main disconnects its own
\* client, the first one. UserBannedInChannelError: mark_banned, another account
\* is taken, its client is got and joins the channel; after a join scrape_channel
\* is called again with the new client, after a failed join the calls return;
\* an exception of get_random_available_account or get_client leaves through
\* every open call to main's except block, past its client.disconnect().
\* ret names the outcome, prev the accounts the channel's task has taken.
sched_fetch ==
    LET a == sheld[Len(sheld)]
        ch == scrape_channels[sidx]
        held == {sheld[i] : i \in 1..Len(sheld)}
        banned == mark_banned(pool, a)
    IN
    /\ spc = "fetch"
    /\ \/ \E outcome \in {"ok", "flood", "error"} :
            /\ conn' = [conn EXCEPT ![sheld[1]] = FALSE]
            /\ last' = Call("scrape_channel", a, ch, 0, outcome, held)
            /\ sheld' = <<>> /\ spc' = "loop" /\ sidx' = NextChannel(sidx)
            /\ pool' = pool
       \/ /\ Available(banned) = {}
          /\ pool' = banned
          /\ last' = Call("scrape_channel", a, ch, 0, "NoIdentityAvailable", held)
          /\ sheld' = <<>> /\ spc' = "loop" /\ sidx' = NextChannel(sidx)
          /\ conn' = conn
       \/ \E b \in Available(banned), outcome \in {"client_error", "join_failed", "refetch"} :
            /\ pool' = acquire(banned, b)
            /\ last' = Call("scrape_channel", a, ch, 0, outcome, held \cup {b})
            /\ CASE outcome = "client_error" ->
                      /\ sheld' = <<>> /\ spc' = "loop" /\ sidx' = NextChannel(sidx)
                      /\ conn' = conn
                 [] outcome = "join_failed" ->
                      /\ sheld' = <<>> /\ spc' = "loop" /\ sidx' = NextChannel(sidx)
                      /\ conn' = [conn EXCEPT ![b] = TRUE, ![sheld[1]] = FALSE]
                 [] outcome = "refetch" ->
                      /\ sheld' = Append(sheld, b) /\ spc' = "fetch" /\ sidx' = sidx
                      /\ conn' = [conn EXCEPT ![b] = TRUE]
    /\ UNCHANGED <<tier, all_channels, priority_channels, scrape_channels, exhausted>>
    /\ UNCHANGED <<now, accounts, account_channels, crawl_locks, raceVars, crawlVars,
                   poolVars, connVars, joinVars, loaderVars>>

\* main: await asyncio.sleep(interval), then the loop's next round.
sched_sleep ==
    /\ spc = "sleep"
    /\ spc' = "cycle"
    /\ last' = Call("sleep", None, None, Interval(tier), None, {})
    /\ UNCHANGED <<pool, conn, tier, all_channels, priority_channels, scrape_channels,
                   sidx, sheld, exhausted>>
    /\ UNCHANGED <<now, accounts, account_channels, crawl_locks, raceVars, crawlVars,
                   poolVars, connVars, joinVars, loaderVars>>

\* A banned identity is reinstated from outside the service, while the
\* scheduler sleeps between two cycles.
reinstate ==
    /\ spc = "sleep"
    /\ \E a \in Identities :
          /\ pool[a] = "Banned"
          /\ pool' = [pool EXCEPT ![a] = "Available"]
          /\ last' = Call("reinstate", a, None, 0, None, {})
    /\ UNCHANGED <<conn, spc, tier, all_channels, priority_channels, scrape_channels,
                   sidx, sheld, exhausted>>
    /\ UNCHANGED <<now, accounts, account_channels, crawl_locks, raceVars, crawlVars,
                   poolVars, connVars, joinVars, loaderVars>>

\* ChannelLoader.on_modified, on the observer's thread: the loader of the changed
\* file reads it again (load_channels) and does nothing else; main is not woken.
\* The files change while the scheduler waits between two cycles.
loader_on_modified ==
    /\ spc = "sleep"
    /\ \/ \E l \in TargetLists :
             /\ l # all_channels
             /\ all_channels' = l
             /\ UNCHANGED priority_channels
       \/ \E l \in PriorityLists :
             /\ l # priority_channels
             /\ priority_channels' = l
             /\ UNCHANGED all_channels
    /\ last' = Call("on_modified", None, None, 0, None, {})
    /\ UNCHANGED <<pool, conn, spc, tier, scrape_channels, sidx, sheld, exhausted>>
    /\ UNCHANGED <<now, accounts, account_channels, crawl_locks, raceVars, crawlVars,
                   poolVars, connVars, joinVars, loaderVars>>

\* AccountManager(...) has loaded the session files there are, none to three,
\* every one of them available; the two loaders have read their files.
SchedInit ==
    /\ now = 0
    /\ accounts = {}
    /\ account_channels = {}
    /\ crawl_locks = {}
    /\ last = Call("init", None, None, 0, None, {})
    /\ RaceIdle
    /\ CrawlIdle
    /\ ConnIdle
    /\ JoinIdle
    /\ LoaderIdle
    /\ \E present \in SUBSET Identities :
          pool = [a \in Identities |-> IF a \in present THEN "Available" ELSE "Absent"]
    /\ conn = [a \in Identities |-> FALSE]
    /\ spc = "start"
    /\ tier = None
    /\ all_channels \in TargetLists
    /\ priority_channels \in PriorityLists
    /\ scrape_channels = <<>>
    /\ sidx = 1
    /\ sheld = <<>>
    /\ exhausted = 0

SchedNext ==
    \/ sched_start
    \/ sched_cycle
    \/ update_channel_joins
    \/ sched_acquire
    \/ sched_cycle_end
    \/ sched_fetch
    \/ sched_sleep
    \/ reinstate
    \/ loader_on_modified

SpecSched == SchedInit /\ [][SchedNext]_vars

\* main is the only coroutine of its event loop: none of its steps is put off
\* for ever. Nothing makes a reinstatement happen.
SchedFairness ==
    /\ WF_vars(sched_start) /\ WF_vars(sched_cycle) /\ WF_vars(update_channel_joins)
    /\ WF_vars(sched_acquire) /\ WF_vars(sched_cycle_end) /\ WF_vars(sched_fetch)
    /\ WF_vars(sched_sleep)

SpecSchedFair == SpecSched /\ SchedFairness

\* ------------------------------------------------------------ pool claims
BannedRow(a) == \E r \in tg_accounts : r.phone = a /\ r.status = "banned"
Holds(t) == cacct[t] # None
Acquires(t) == cpc[t] # "connect" /\ cpc'[t] = "connect"
AcquisitionBy(t) == cpc[t] # cpc'[t] /\ cpc'[t] \in {"connect", "raised"}

\* C11: each transition of an account to banned produces exactly one ban
\* notification for that account, and meeting an already banned account again
\* sends no further one: the notifications sent for an account number one when
\* its status is banned and none when it is not.
C11_OneNotificationPerBan ==
    \A a \in Accounts : sent[a] = IF BannedRow(a) THEN 1 ELSE 0

\* C11, the second half alone: never more than one notification for one ban.
C11_NoSecondNotification ==
    \A a \in Accounts : sent[a] <= 1

\* C12: the account get_active_account returns is never one whose persisted
\* status is banned at the moment it is returned, whatever the queue holds and
\* whatever the status read does (no row, a read that raises).
C12_NeverReturnsBanned ==
    [][\A t \in CrawlTasks : Acquires(t) => ~BannedRow(cacct'[t])]_vars

\* C13: from the moment get_active_account returns an account to a task until
\* that task's process_channels has returned, no other task is given the same
\* account.
C13_ExclusiveUse ==
    \A t1 \in CrawlTasks, t2 \in CrawlTasks :
        (t1 # t2 /\ Holds(t1) /\ Holds(t2)) => cacct[t1] # cacct[t2]

\* C15: when every loaded account's persisted status is banned (also when no
\* account is loaded), get_active_account raises RuntimeError: it returns no
\* account.
C15_ExhaustedPoolRaises ==
    [][\A t \in CrawlTasks :
          (AcquisitionBy(t) /\ \A i \in 1..Len(mgr_accounts) : BannedRow(mgr_accounts[i]))
            => cpc'[t] = "raised"]_vars

\* ------------------------------------------------------------ scheduler claims
\* The step ends the task of one channel: scrape_channel has returned to main
\* or an exception has reached main's except block after an account was taken.
TaskExit ==
    \/ last'.op = "scrape_channel" /\ last'.ret # "refetch"
    \/ last'.op = "acquire" /\ last'.ret = "client_error"

\* C14: whenever the task of a channel that took an account exits, normally or
\* by an exception, every account it took is available again (or banned, when
\* the crawl got it banned) and its client is disconnected. (The scheduler
\* takes no lock.)
C14_ReleasedOnExit ==
    [][TaskExit => \A a \in last'.prev :
                      pool'[a] \in {"Available", "Banned"} /\ ~conn'[a]]_vars

\* C14, the session alone: at the task's exit no account it took is connected.
C14_SessionClosedOnExit ==
    [][TaskExit => \A a \in last'.prev : ~conn'[a]]_vars

\* C16: once get_random_available_account has failed for a channel of a cycle,
\* no channel of that cycle is left to be attempted: the cycle ends.
C16_ExhaustionEndsCycle ==
    [][last'.ret = "NoIdentityAvailable"
         => (spc' = "sleep" \/ sidx' > Len(scrape_channels'))]_vars

\* C17: when no identity is active any more the scheduler stops. Exactly one
\* pool-exhausted e-mail is sent, at the moment it stops; with no active
\* identity no join and no fetch begins; once stopped nothing happens; and if
\* the identities stay banned the scheduler does stop.
C17_StopsOnceExhausted ==
    /\ [](exhausted <= 1 /\ (spc = "stopped" <=> exhausted = 1))
    /\ [][/\ (spc \in {"start", "cycle"} /\ ActiveCount(pool') = 0)
               => (spc' = "stopped" /\ exhausted' = exhausted + 1)
          /\ ActiveCount(pool) = 0
               => (spc' # "fetch" /\ last'.op # "update_channel_joins")
          /\ spc # "stopped"]_vars
    /\ (<>[](ActiveCount(pool) = 0) => <>(spc = "stopped"))

\* A pool of two, both banned by fetch errors one after the other; the
\* scheduler has stopped and has sent its one e-mail.
C17_Witness ==
    /\ spc = "stopped" /\ exhausted = 1
    /\ Cardinality({a \in Identities : pool[a] = "Banned"}) = 2
    /\ Cardinality({a \in Identities : pool[a] = "Absent"}) = 1
    /\ last.op = "cycle"

\* C18: with three active identities, when a fetch ends in
\* UserBannedInChannelError (and the next client and its join do not fail), two
\* identities are active afterwards, the cycle stays in normal mode, and the
\* channel is fetched again in the same cycle by an identity other than the
\* banned one.
C18_RefetchByAnotherIdentity ==
    [][(/\ last'.op = "scrape_channel"
        /\ last'.ret \notin {"ok", "flood", "error", "client_error", "join_failed"}
        /\ ActiveCount(pool) = 3 /\ tier = "Normal")
       => (/\ ActiveCount(pool') = 2
           /\ tier' = "Normal"
           /\ spc' = "fetch" /\ sidx' = sidx
           /\ sheld'[Len(sheld')] # last'.acct
           /\ pool'[sheld'[Len(sheld')]] # "Banned")]_vars

\* C19: a cycle runs in fallback mode if and only if exactly one identity is
\* active when the cycle begins, and in normal mode whenever more than one is,
\* also in the first cycle after the count has risen above one again; the mode
\* is kept to the cycle's end.
C19_FallbackIffOneActive ==
    [][/\ (last'.op = "cycle" /\ spc' = "joins")
            => /\ tier' = "Fallback" <=> ActiveCount(pool') = 1
               /\ ActiveCount(pool') > 1 => tier' = "Normal"
       /\ last'.op # "cycle" => tier' = tier]_vars

\* A normal cycle begins right after a fallback cycle.
C19_Witness ==
    /\ last.op = "cycle" /\ spc = "joins"
    /\ last.prev = {"Fallback"}
    /\ tier = "Normal" /\ ActiveCount(pool) > 1

\* C20: in normal mode the cycle's channels are all the target channels; in
\* fallback mode they are the first five of the priority list when that list is
\* not empty, else the first five of the full list (all of it when it is
\* shorter), never more than five.
C20_ChannelSelection ==
    [][(last'.op = "cycle" /\ spc' = "joins")
         => LET from == IF priority_channels # <<>> THEN priority_channels
                        ELSE all_channels
                sel == scrape_channels'
            IN IF tier' = "Normal" THEN sel = all_channels
               ELSE /\ Len(sel) <= 5
                    /\ Len(sel) = Len(from) \/ Len(sel) = 5
                    /\ \A i \in 1..Len(sel) : sel[i] = from[i]]_vars

\* A fallback cycle whose priority list holds more than five channels.
C20_Witness ==
    /\ last.op = "cycle" /\ spc = "joins" /\ tier = "Fallback"
    /\ Len(priority_channels) > 5
    /\ scrape_channels = SubSeq(priority_channels, 1, 5)


\* C21: when the target-list-changed signal fires while the scheduler waits out
\* the inter-cycle interval, the wait ends there and channel selection runs
\* again with the new list.
C21_ReloadEndsTheWait ==
    [][last'.op = "on_modified" /\ spc = "sleep" => spc' = "cycle"]_vars

\* C22: a rate-limit error on a channel is followed by one more fetch of that
\* same channel in the current cycle: the scheduler stays on the channel.
C22_FloodRetriesOnce ==
    [][last'.op = "scrape_channel" /\ last'.ret = "flood"
          => spc' = "fetch" /\ sidx' = sidx]_vars

\* The table holds a row of account a whose status is 'banned'.
BannedIn(table, a) == \E r \in table : r.phone = a /\ r.status = "banned"

\* C23: a rate-limit (FloodWait) response never makes an account banned,
\* neither its is_banned flag nor its persisted status.
C23_FloodWaitIsNoBan ==
    [][(last' # last /\ last'.op = "scrape_messages" /\ last'.ret = "FloodWait")
          => /\ is_banned'[last'.acct] = is_banned[last'.acct]
             /\ BannedIn(tg_accounts', last'.acct) = BannedIn(tg_accounts, last'.acct)]_vars

\* C24: whenever a join or a fetch by an account fails with a ban-type error,
\* the account's persisted status is banned afterwards.
C24_BanIsPersisted ==
    [][(last' # last /\ last'.op \in {"join_channel", "scrape_messages"}
                     /\ last'.ret = "UserBannedInChannel")
          => BannedIn(tg_accounts', last'.acct)]_vars


\* C25: an account fetches a channel only as a member of it: every channel of a
\* fetch has a membership row of the fetching account, written by the join of
\* this run or found when the run began; a channel whose join failed is not
\* fetched.
C25_JoinPrecedesFetch ==
    \A t \in CrawlTasks :
        Fetching(t) => FetchChannel(t) \in get_joined_channels_from_db(cacct[t])

\* ------------------------------------------------------------ membership claims
MemberKeys(table) == {<<r.account_name, r.channel_id>> : r \in table}

\* C26: update_channel_crawl writes a crawl time on an existing membership row
\* only: it adds and removes no row, without a row of the pair it changes
\* nothing, and a row it changes is the pair's row, which was there before and
\* keeps its joined time.
C26_CrawlTimeOnlyOnMembership ==
    [][last'.op = "update_channel_crawl" =>
          /\ MemberKeys(account_channels') = MemberKeys(account_channels)
          /\ (last'.prev = {} => account_channels' = account_channels)
          /\ \A r \in account_channels' \ account_channels :
                /\ r.account_name = last'.acct /\ r.channel_id = last'.ch
                /\ r.last_crawled = last'.ret
                /\ \E o \in last'.prev : o.joined_at = r.joined_at]_vars

\* update_channel_crawl has been called for a pair without a row while the
\* table holds rows of other pairs.
C26_Witness ==
    /\ last.op = "update_channel_crawl" /\ last.ret > 0
    /\ last.prev = {}
    /\ account_channels # {}

\* C27: recording the join again (add_channel for a pair that has a row) leaves
\* the row as it is, its joined time and its last-crawled time.
C27_JoinedAtSetOnce ==
    [][last'.op = "add_channel" =>
          \A r \in account_channels :
              (r.account_name = last'.acct /\ r.channel_id = last'.ch)
                => r \in account_channels']_vars

\* C28: after a successful fetch of a channel by an account the membership row
\* of the pair has its last-crawled time set to the time of that fetch.
C28_FetchRecordsCrawlTime ==
    [][(last'.op = "scrape_channel" /\ last'.ret = "ok") =>
          \E r \in account_channels' :
              /\ r.account_name = last'.acct /\ r.channel_id = last'.ch
              /\ r.last_crawled = now']_vars

\* ------------------------------------------------------------ joined-channel claims
\* The positions of the required list whose channel has no row of the account.
MissingAt(req, joined) == {i \in 1..Len(req) : req[i] \notin joined}

\* res lists, in the order of req, exactly the required channels without a row.
ListsMissing(res, req, joined) ==
    /\ Len(res) = Cardinality(MissingAt(req, joined))
    /\ \A i \in MissingAt(req, joined) :
          res[Cardinality({j \in MissingAt(req, joined) : j <= i})] = req[i]

\* C29: once a membership of the account is persisted, the missing channels
\* computed against any required list do not hold that channel, and they are,
\* in required-list order, exactly the required channels without a membership
\* row.
C29_MissingAfterJoin ==
    [][last'.op = "get_new_channels" =>
          /\ \A i \in 1..Len(last'.ret) : last'.ret[i] \notin last'.prev
          /\ ListsMissing(last'.ret, last'.ch, last'.prev)]_vars

\* C29 when the membership read succeeds.
C29_MissingAfterJoinWhenRead ==
    [][(last'.op = "get_new_channels" /\ last'.timeout = 0) =>
          /\ \A i \in 1..Len(last'.ret) : last'.ret[i] \notin last'.prev
          /\ ListsMissing(last'.ret, last'.ch, last'.prev)]_vars

\* The account has joined chan1 and not chan2, the read succeeded and of a list
\* of three only chan2, twice, is returned.
C29_WitnessWhenRead ==
    /\ last.op = "get_new_channels" /\ last.timeout = 0
    /\ last.prev = {"chan1"}
    /\ last.ch = <<"chan2", "chan1", "chan2">>
    /\ last.ret = <<"chan2", "chan2">>

\* ------------------------------------------------------------ connect claims
\* C30: connect makes at most 5 connection attempts and always terminates; it
\* sleeps the fixed delay between two consecutive rounds only, never after the
\* last one, and client.start() is called only after the session file has
\* been found present and accessible in the same round.
C30_ConnectBounded ==
    /\ [](rounds <= 5 /\ attempts <= rounds)
    /\ [](conn_pc \in {"loop", "sleeping"} => sleeps = rounds)
    /\ [](conn_pc = "sleeping" => rounds < 5)
    /\ [](conn_pc = "returned" => rounds >= 1 /\ sleeps = rounds - 1)
    /\ [][attempts' = attempts + 1 => session_file = "ok"]_vars
    /\ [][last'.op = "sleep" => last'.timeout = 5]_vars
    /\ (conn_pc = "loop" ~> conn_pc = "returned")

\* Five attempts have failed with four sleeps between them and connect has
\* returned False.
C30_Witness ==
    /\ conn_pc = "returned" /\ last.op = "connect_return" /\ last.ret = FALSE
    /\ rounds = 5 /\ attempts = 5 /\ sleeps = 4
    /\ client["idA"] = None

\* C31: connect returns True only when a client.start() of the call
\* succeeded, and whenever it returns False the account holds no client.
C31_FailureLeavesNoClient ==
    [][(conn_pc = "loop" /\ conn_pc' = "returned") =>
          /\ last'.ret \in {TRUE, FALSE}
          /\ (last'.ret = TRUE => attempts' >= 1 /\ client'["idA"] = "connected")
          /\ (last'.ret = FALSE => client'["idA"] = None)]_vars

\* C32: between two consecutive join calls of one account at least 3 seconds
\* pass, also when the earlier join call failed.
C32_JoinsThrottled ==
    [][(jpc = "loop" /\ jpc' = "joining") => since_join >= 3]_vars

\* C32 after a join call that succeeded.
C32_JoinsThrottledAfterSuccess ==
    [][(jpc = "loop" /\ jpc' = "joining" /\ last.op = "join_sleep")
          => since_join >= 3]_vars

AccountNames == {r.account_name : r \in accounts}

\* C34: every membership row and every lock row names an account that has a
\* row in the accounts table.
C34_ReferentialIntegrity ==
    /\ \A r \in account_channels : r.account_name \in AccountNames
    /\ \A r \in crawl_locks : r.locked_by_session \in AccountNames

\* C34, remove_account alone: no membership or lock row of the removed account
\* is left and the rows of other accounts are as they were.
C34_RemoveAccountCascades ==
    [][last'.op = "remove_account" =>
          /\ \A r \in account_channels' : r.account_name # last'.acct
          /\ \A r \in crawl_locks' : r.locked_by_session # last'.acct
          /\ \A r \in account_channels : r.account_name # last'.acct => r \in account_channels'
          /\ \A r \in crawl_locks : r.locked_by_session # last'.acct => r \in crawl_locks'
          /\ \A r \in accounts : r.account_name # last'.acct => r \in accounts']_vars

\* The identities the pool was loaded with.
PoolSize == Cardinality({a \in Identities : pool[a] # "Absent"})

\* C35: the re-dispatch of one channel after bans ends after at most n fetch
\* attempts for a pool of n identities, each by another identity, which was
\* not banned when it was chosen; when no identity is left the channel is
\* given up and the cycle goes on with the next channel.
C35_RedispatchTerminates ==
    /\ [](/\ Len(sheld) <= PoolSize
          /\ \A i \in 1..Len(sheld), j \in 1..Len(sheld) : i # j => sheld[i] # sheld[j])
    /\ [][(spc' = "fetch" /\ sheld' # sheld) =>
              /\ Len(sheld') = Len(sheld) + 1
              /\ pool[sheld'[Len(sheld')]] \notin {"Banned", "Absent"}]_vars
    /\ [][(last'.op = "scrape_channel" /\ last'.ret = "NoIdentityAvailable") =>
              /\ spc' = "loop" /\ sidx' = sidx + 1
              /\ scrape_channels' = scrape_channels]_vars
    /\ (spc = "fetch" ~> spc # "fetch")

\* Three identities have fetched the first channel one after the other, each
\* was banned, none is left: the loop stands at the second channel.
C35_Witness ==
    /\ last.op = "scrape_channel" /\ last.ret = "NoIdentityAvailable"
    /\ Cardinality(last.prev) = 3
    /\ spc = "loop" /\ sidx = 2 /\ Len(scrape_channels) >= 2

\* ------------------------------------------------------------ watcher claims
\* The run of task t has connected and has not yet disconnected.
InRun(t) == cpc[t] \in {"check", "sync", "join", "scrape", "fetching", "finally"}

\* C36: while a process_channels run on an account is between its connect and
\* its disconnect, no step of the other task's run changes that account's
\* client.
C36_NoInterference ==
    [][\A t1 \in CrawlTasks, t2 \in CrawlTasks :
          (/\ t1 # t2
           /\ InRun(t1)
           /\ cpc'[t1] = cpc[t1]
           /\ cpc'[t2] # cpc[t2])
          => client'[cacct[t1]] = client[cacct[t1]]]_vars

\* ------------------------------------------------------------ queue claims
QueueSet(q) == {q[i] : i \in 1..Len(q)}
NoRepeat(q) == \A i \in 1..Len(q), j \in 1..Len(q) : i # j => q[i] # q[j]

\* The queue after the account at position i has been returned: the accounts
\* before it are dropped, the account itself is at the tail.
Rotated(q, i) == Append(SubSeq(q, i + 1, Len(q)), q[i])

\* The step is AccountManager.__init__ of a new manager: a new queue.
NewQueue == cpc' = [t \in CrawlTasks |-> "idle"] /\ cpc' # cpc

\* C37: get_active_account returns the first account of the queue whose
\* persisted status is not banned and moves it to the tail; the queue never
\* holds an account twice; an account that has left the queue never comes back
\* to it, so it is never returned again.
C37_QueueRotates ==
    /\ [](NoRepeat(account_queue))
    /\ [][~NewQueue => QueueSet(account_queue') \subseteq QueueSet(account_queue)]_vars
    /\ [][\A t \in CrawlTasks : Acquires(t) =>
              \E i \in 1..Len(account_queue) :
                  /\ cacct'[t] = account_queue[i]
                  /\ ~BannedRow(account_queue[i])
                  /\ \A j \in 1..(i - 1) : BannedRow(account_queue[j])
                  /\ account_queue' = Rotated(account_queue, i)]_vars

\* C37 without the status of the account returned: it is an account of the
\* queue, every account before it is banned and dropped, and it moves to the
\* tail.
C37_QueueRotatesPastBanned ==
    /\ [](NoRepeat(account_queue))
    /\ [][~NewQueue => QueueSet(account_queue') \subseteq QueueSet(account_queue)]_vars
    /\ [][\A t \in CrawlTasks : Acquires(t) =>
              \E i \in 1..Len(account_queue) :
                  /\ cacct'[t] = account_queue[i]
                  /\ \A j \in 1..(i - 1) : BannedRow(account_queue[j])
                  /\ account_queue' = Rotated(account_queue, i)]_vars

\* ------------------------------------------------------------ channel files
\* telegram_scraper.py, ChannelLoader: one loader and the file it watches. The
\* file is written by hand while the service runs; the loader reads it when it
\* is constructed and at every on_modified event.
MaxLines == 2
ChannelNames == {"chan1", "chan2"}
PriorityTexts == {"0", "2", "x"}

\* A stripped, non-blank line: a name alone, or a name, a comma and a text.
FileLines ==
    {[name |-> n, comma |-> FALSE, text |-> ""] : n \in ChannelNames}
    \cup [name : ChannelNames, comma : {TRUE}, text : PriorityTexts]

\* the line as it stands in the file
LineText(l) == IF l.comma THEN l.name \o "," \o l.text ELSE l.name

\* int(text): the value of a numeral; any other text raises ValueError.
IsNumeral(t) == t \in {"0", "2"}
int(t) == CASE t = "0" -> 0 [] t = "2" -> 2

\* (line.split(",")[0], int(line.split(",")[1])) if "," in line else (line, 1)
ParseRaises(l) == l.comma /\ ~IsNumeral(l.text)
ParseLine(l) == IF l.comma THEN <<l.name, int(l.text)>> ELSE <<l.name, 1>>

\* list.sort(key=lambda x: x[1], reverse=True): a stable sort, greatest key
\* first; an element is placed behind the elements whose key is not smaller.
Insert_BeforeEqual(sorted, e) ==
    LET k == Cardinality({i \in 1..Len(sorted) : sorted[i][2] > e[2]})
    IN SubSeq(sorted, 1, k) \o <<e>> \o SubSeq(sorted, k + 1, Len(sorted))
Insert(sorted, e) ==
    LET k == Cardinality({i \in 1..Len(sorted) : sorted[i][2] >= e[2]})
    IN SubSeq(sorted, 1, k) \o <<e>> \o SubSeq(sorted, k + 1, Len(sorted))

RECURSIVE SortByPriority(_)
SortByPriority(l) ==
    IF l = <<>> THEN <<>>
    ELSE Insert(SortByPriority(SubSeq(l, 1, Len(l) - 1)), l[Len(l)])

\* The body of the try block: what it raises, and what it assigns to
\* self.channels when it does not raise.
TryRaises(state, lines, prio) ==
    \/ state = "unreadable"
    \/ state = "present" /\ prio /\ \E i \in 1..Len(lines) : ParseRaises(lines[i])
TryAssigns(state, lines, prio) ==
    IF state = "missing" THEN <<>>
    ELSE IF prio
         THEN LET sorted == SortByPriority([i \in 1..Len(lines) |-> ParseLine(lines[i])])
              IN [i \in 1..Len(sorted) |-> sorted[i][1]]
         ELSE [i \in 1..Len(lines) |-> LineText(lines[i])]

\* except Exception: logger.error(...); self.channels is what it was.
OnException_Cleared(old) == <<>>
OnException(old) == old

Loaded(old, state, lines, prio) ==
    IF TryRaises(state, lines, prio) THEN OnException(old)
    ELSE TryAssigns(state, lines, prio)

\* ChannelLoader(file_path, is_priority): self.channels = [] and the first load.
ChannelLoader_init(prio) ==
    /\ is_priority' = prio
    /\ channels' = Loaded(<<>>, file_state, file_lines, prio)
    /\ last' = Call("ChannelLoader", None, None, 0, "returned", FALSE)
    /\ UNCHANGED <<file_state, file_lines, now, accounts, account_channels, crawl_locks,
                   raceVars, crawlVars, poolVars, schedVars, connVars, joinVars>>

\* load_channels, called by on_modified; last.prev tells whether the list held
\* a channel before the call.
load_channels ==
    /\ channels' = Loaded(channels, file_state, file_lines, is_priority)
    /\ last' = Call("load_channels", None, None, 0, "returned", channels # <<>>)
    /\ UNCHANGED <<file_state, file_lines, is_priority, now, accounts, account_channels,
                   crawl_locks, raceVars, crawlVars, poolVars, schedVars, connVars,
                   joinVars>>

\* The file is edited: a line is added (the file is created if need be), the
\* file is emptied, deleted, or its permissions change.
file_changes ==
    /\ \/ /\ file_state # "unreadable"
          /\ Len(file_lines) < MaxLines
          /\ \E l \in FileLines : file_lines' = Append(file_lines, l)
          /\ file_state' = "present"
       \/ /\ file_state = "present"
          /\ file_lines # <<>>
          /\ file_lines' = <<>>
          /\ file_state' = "present"
       \/ /\ file_state # "missing"
          /\ file_lines' = <<>>
          /\ file_state' = "missing"
       \/ /\ file_state = "present"
          /\ file_state' = "unreadable"
          /\ file_lines' = file_lines
       \/ /\ file_state = "unreadable"
          /\ file_state' = "present"
          /\ file_lines' = file_lines
    /\ last' = Call("file_changes", None, None, 0, None, FALSE)
    /\ UNCHANGED <<channels, is_priority, now, accounts, account_channels, crawl_locks,
                   raceVars, crawlVars, poolVars, schedVars, connVars, joinVars>>

LoaderNext ==
    \/ \E prio \in BOOLEAN : ChannelLoader_init(prio)
    \/ load_channels
    \/ file_changes

SpecLoader == StoreInit /\ [][LoaderNext]_vars

\* ------------------------------------------------------------ channel file claims
\* the priority a line of a priority file has: the number behind the comma,
\* 1 for a line without one
PriorityOf(l) == IF l.comma THEN int(l.text) ELSE 1

\* the place line i of the file has in a list ordered by priority descending in
\* which lines of equal priority keep their file order
PlaceOf(lines, i) ==
    1 + Cardinality({j \in 1..Len(lines) :
                        \/ PriorityOf(lines[j]) > PriorityOf(lines[i])
                        \/ PriorityOf(lines[j]) = PriorityOf(lines[i]) /\ j < i})

WellFormed(lines) == \A i \in 1..Len(lines) : ~lines[i].comma \/ IsNumeral(lines[i].text)

\* a load of a priority file that is there, readable and well-formed
PriorityLoad ==
    /\ last'.op \in {"load_channels", "ChannelLoader"}
    /\ is_priority'
    /\ file_state = "present"
    /\ WellFormed(file_lines)

\* C38: after load_channels on a priority file the list holds the names of the
\* file's lines ordered by priority descending, a line without a priority
\* counting as priority 1 and lines of equal priority keeping their file order.
C38_PriorityOrder ==
    [][PriorityLoad =>
          /\ Len(channels') = Len(file_lines)
          /\ \A i \in 1..Len(file_lines) :
                channels'[PlaceOf(file_lines, i)] = file_lines[i].name]_vars

\* A priority file was loaded in which a line of priority 0 stands before a
\* line without a priority, and the list names the second line's channel first.
C38_Witness ==
    /\ last.op = "load_channels"
    /\ is_priority
    /\ file_state = "present"
    /\ Len(file_lines) = 2
    /\ file_lines[1].comma /\ file_lines[1].text = "0"
    /\ ~file_lines[2].comma
    /\ file_lines[1].name # file_lines[2].name
    /\ channels = <<file_lines[2].name, file_lines[1].name>>

\* a reload that fails: the file cannot be read, or a priority is malformed
FailedReload ==
    /\ last'.op = "load_channels"
    /\ \/ file_state = "unreadable"
       \/ file_state = "present" /\ is_priority /\ ~WellFormed(file_lines)

\* C39: a failed reload raises nothing and leaves the list as it was; a reload
\* when the file does not exist replaces the list with the empty list.
C39_FailedReloadKeepsList ==
    [][/\ last'.op = "load_channels" => last'.ret = "returned"
       /\ FailedReload => channels' = channels
       /\ (last'.op = "load_channels" /\ file_state = "missing") => channels' = <<>>]_vars

\* A reload failed on a malformed priority with a list loaded before.
C39_Witness ==
    /\ last.op = "load_channels"
    /\ is_priority
    /\ file_state = "present"
    /\ ~WellFormed(file_lines)
    /\ last.prev
    /\ channels # <<>>

\* A reload found the file gone and emptied a list that was loaded before.
C39_WitnessMissing ==
    /\ last.op = "load_channels"
    /\ file_state = "missing"
    /\ last.prev
    /\ channels = <<>>

=============================================================================
